---- MODULE Spec2Model ----
(***************************************************************************)
(* A model of the PracticeFusion integration adapter                       *)
(* (src/practice_fusion_integrations.py, src/models/models.py).            *)
(*                                                                         *)
(* One invocation of a public operation is a process p.  Between two       *)
(* awaits of _make_request the code runs without interruption, so every    *)
(* action is: issue one outbound call, take the remote system's response   *)
(* through _handle_response, and run the code up to the next call (or to   *)
(* the return / raise that ends the invocation).                           *)
(*                                                                         *)
(* Python values.  A str is a sequence of one-character strings, so that   *)
(* len, count and split are computed on the characters.  None, where a     *)
(* str is expected, is the one-element sequence None (its element is not   *)
(* a character, so no str equals it).  A parsed JSON body is tagged:       *)
(* [t |-> "dict" | "list" | "none", v |-> ...]; a dict's v is a function   *)
(* from its keys, a list's v is a sequence.  A datetime is a number of     *)
(* seconds; NoneDT stands for an absent datetime.                          *)
(***************************************************************************)
EXTENDS Integers, Sequences, FiniteSets, TLC

VARIABLES
    adapter,   \* the PracticeFusionIntegration instance's fields
    op,        \* op[p]: the public operation invocation p runs ("idle" before it starts)
    pc,        \* pc[p]: the call invocation p issues next, or "done"
    given,     \* given[p]: the fields the caller built the request from
    req,       \* req[p]: the request object of invocation p
    loc,       \* loc[p]: the local variables of invocation p
    calls,     \* calls[p]: the outbound calls invocation p has issued, in order
    outcome    \* outcome[p]: what invocation p returned or raised

vars == <<adapter, op, pc, given, req, loc, calls, outcome>>

---------------------------------------------------------------------------
(* Bounds of the model *)

\* the largest number of files in a DocumentUploadRequest
MaxFiles == 2
\* the largest number of MedicationRequests in a PatientTranscriptRequest
MaxMeds == 2

---------------------------------------------------------------------------
(* Python values *)

None == <<"None">>
NoneDT == 0 - 1

PyNone == [t |-> "none", v |-> <<>>]
Dict(d) == [t |-> "dict", v |-> d]
List(s) == [t |-> "list", v |-> s]

\* bool(x) of an Optional[str]
Truthy(s) == s # None /\ s # <<>>

\* d.get(k, default) of a dict's keys-to-values function
Get(d, k, default) == IF k \in DOMAIN d THEN d[k] ELSE default

Ok(v) == [ok |-> TRUE, val |-> v]
Err(e) == [ok |-> FALSE, exc |-> e]

Chars(c, n) == [i \in 1..n |-> c]

RECURSIVE Count(_, _)
\* s.count(c)
Count(s, c) ==
    IF s = <<>> THEN 0
    ELSE (IF Head(s) = c THEN 1 ELSE 0) + Count(Tail(s), c)

RECURSIVE SplitFrom(_, _)
\* the tokens of s after the token cur that is being read
SplitFrom(s, cur) ==
    IF s = <<>> THEN (IF cur = <<>> THEN <<>> ELSE <<cur>>)
    ELSE IF Head(s) = " "
         THEN (IF cur = <<>> THEN <<>> ELSE <<cur>>) \o SplitFrom(Tail(s), <<>>)
         ELSE SplitFrom(Tail(s), Append(cur, Head(s)))

\* s.split(): the maximal runs of non-whitespace characters
Split(s) == SplitFrom(s, <<>>)

LowerCase == <<"a", "b", "c", "d", "e", "f", "g", "h", "i", "j", "k", "l", "m", "n", "o", "p", "q", "r", "s", "t", "u", "v", "w", "x", "y", "z">>
UpperCase == <<"A", "B", "C", "D", "E", "F", "G", "H", "I", "J", "K", "L", "M", "N", "O", "P", "Q", "R", "S", "T", "U", "V", "W", "X", "Y", "Z">>

\* the place of character c in alphabet, 0 when it is not in it
IndexIn(alphabet, c) ==
    IF \E j \in 1..Len(alphabet) : alphabet[j] = c
    THEN CHOOSE j \in 1..Len(alphabet) : alphabet[j] = c
    ELSE 0

\* s.upper()
Upper(s) ==
    [j \in 1..Len(s) |->
        IF IndexIn(LowerCase, s[j]) = 0 THEN s[j]
        ELSE UpperCase[IndexIn(LowerCase, s[j])]]

\* s.lower()
Lower(s) ==
    [j \in 1..Len(s) |->
        IF IndexIn(UpperCase, s[j]) = 0 THEN s[j]
        ELSE LowerCase[IndexIn(UpperCase, s[j])]]

Digits == <<"0", "1", "2", "3", "4", "5", "6", "7", "8", "9">>

\* str(n) of a three-digit status
StrInt(n) ==
    <<Digits[(n \div 100) + 1], Digits[((n \div 10) % 10) + 1], Digits[(n % 10) + 1]>>

---------------------------------------------------------------------------
(* Exceptions and results *)

NoOutcome == [kind |-> "none", status_code |-> 0, detail |-> PyNone]

\* an exception of Python itself: no status, no detail
PyError(kind) == [kind |-> kind, status_code |-> 0, detail |-> PyNone]

\* fastapi.HTTPException(status_code, detail): its constructor has the
\* parameters status_code, detail and headers only, so a call that passes any
\* other keyword raises TypeError instead of building the exception
HTTPException(status_code, detail, other_kwargs) ==
    IF other_kwargs # {} THEN PyError("TypeError")
    ELSE [kind |-> "HTTPException", status_code |-> status_code, detail |-> detail]

IntegrationAPIError(message, status_code, error_code) ==
    [kind |-> "IntegrationAPIError", status_code |-> status_code,
     detail |-> [message |-> message, error_code |-> error_code]]

JSONResponse(content) ==
    [kind |-> "JSONResponse", status_code |-> 200, detail |-> content]

---------------------------------------------------------------------------
(* The transport shim: _make_request and _handle_response *)

\* what aiohttp hands to _handle_response: the status, whether response.json()
\* succeeds, and the parsed body when it does
HttpResponse(status, parses, json) ==
    [status |-> status, parses |-> parses, json |-> json]

RemoteError == Dict([error |-> [message |-> "remote failure", code |-> <<"E", "1">>]])

\* a 200 response with a parsed body
OkResponse(body) == HttpResponse(200, TRUE, body)

\* the responses that are not a parsed 200: a 4xx and a 5xx with an error body,
\* a 5xx and a 3xx without a parseable body, a 204, and a 200 whose body does
\* not parse
OtherResponses ==
    { HttpResponse(404, TRUE, RemoteError),
      HttpResponse(500, TRUE, RemoteError),
      HttpResponse(500, FALSE, PyNone),
      HttpResponse(302, FALSE, PyNone),
      HttpResponse(204, FALSE, PyNone),
      HttpResponse(200, FALSE, PyNone) }

\* the responses of an endpoint whose well-formed bodies are `bodies`
Responses(bodies) == {OkResponse(b) : b \in bodies} \cup OtherResponses

\* _handle_response: Ok(value returned) or Err(exception raised)
HandleResponse(response) ==
    LET response_json ==
            IF response.parses THEN response.json
            ELSE Dict([error |-> [message |-> "Unknown error",
                                  code |-> StrInt(response.status)]])
    IN  IF 200 <= response.status /\ response.status < 204 THEN Ok(response_json)
        ELSE IF response.status = 204 THEN Ok(PyNone)
        ELSE IF response_json.t # "dict" THEN Err(PyError("AttributeError"))
        ELSE
          LET error == Get(response_json.v, "error", <<>>)
              error_message == Get(error, "message", "Unknown error")
              error_code == Get(error, "code", StrInt(response.status))
          IN  IF response.status >= 400 /\ response.status < 500
                THEN Err(HTTPException(response.status, response_json, {}))
              ELSE IF response.status >= 500
                THEN Err(IntegrationAPIError(
                        <<"Downstream server error (translated to HTTP 501): ",
                          error_message>>, 501, error_code))
              ELSE Err(IntegrationAPIError(
                        <<error_message, " (HTTP ", StrInt(response.status), ")">>,
                        response.status, error_code))

\* _make_request on an instance built without a network_requester (the
\* default of create()): the aiohttp response goes through _handle_response
MakeRequest(response) == HandleResponse(response)

\* _setup_headers of an instance as __init__ leaves it, before create() has
\* stored the cookies and the token
SetupHeaders_before_create ==
    [UserAgent |-> adapter.user_agent, Cookie |-> None, Authorization |-> None]

\* _setup_headers
SetupHeaders ==
    [UserAgent |-> adapter.user_agent,
     Cookie |-> adapter.cookies,
     Authorization |-> adapter.bearer_auth]

---------------------------------------------------------------------------
(* Invocations *)

Procs == {1}

\* the local variables of an invocation, before any is assigned
InitLoc ==
    [headers |-> <<>>,
     response |-> Ok(PyNone),
     payload |-> <<>>,
     appointment_type_guid |-> None,
     patient_id |-> None,
     provider_guid |-> None,
     facility_guid |-> None,
     practice_guid |-> None,
     data |-> PyNone,
     i |-> 0,
     uploaded_documents |-> <<>>,
     upload_data |-> <<>>,
     participant_guid |-> None,
     transcript_guid |-> None,
     encounter_guid |-> None,
     health_concern |-> <<>>,
     care_plan_event |-> <<>>,
     matched_drug |-> <<>>,
     interaction_data |-> PyNone,
     medication_guid |-> None]

\* an outbound call: the endpoint (a key of PF_URLS_MAP), the HTTP method,
\* what the URL, the query and the body carry, and the headers
Call(ep, method, arg, headers) ==
    [ep |-> ep, method |-> method, arg |-> arg, headers |-> headers]

\* How the code goes on after a call: it raises e, returns
\* JSONResponse(content), or reaches the call at label; l are its locals then.
K_Raise(e, l) == [goto |-> FALSE, label |-> "done", out |-> e, loc |-> l]
K_Return(content, l) ==
    [goto |-> FALSE, label |-> "done", out |-> JSONResponse(content), loc |-> l]
K_Goto(label, l) == [goto |-> TRUE, label |-> label, out |-> NoOutcome, loc |-> l]

\* invocation p issues call c, _make_request gives r, and the code goes on as k
Do(p, c, r, k) ==
    /\ calls' = [calls EXCEPT ![p] = Append(@, c)]
    /\ pc' = [pc EXCEPT ![p] = k.label]
    /\ outcome' = [outcome EXCEPT ![p] = k.out]
    /\ loc' = [loc EXCEPT ![p] = [k.loc EXCEPT !.response = r]]
    /\ UNCHANGED <<adapter, op, given, req>>

\* an entry that uses the token up: after it the instance has none
Enter_consumes_token(p, o, data, r, k) ==
    /\ pc[p] = "idle"
    /\ op' = [op EXCEPT ![p] = o]
    /\ given' = [given EXCEPT ![p] = data]
    /\ req' = [req EXCEPT ![p] = r]
    /\ pc' = [pc EXCEPT ![p] = k.label]
    /\ outcome' = [outcome EXCEPT ![p] = k.out]
    /\ loc' = [loc EXCEPT ![p] = k.loc]
    /\ adapter' = [adapter EXCEPT !.bearer_auth = None]
    /\ UNCHANGED calls

\* invocation p enters operation o with request r, built from the fields
\* data: the code up to the first call, which goes on as k
Enter(p, o, data, r, k) ==
    /\ pc[p] = "idle"
    /\ op' = [op EXCEPT ![p] = o]
    /\ given' = [given EXCEPT ![p] = data]
    /\ req' = [req EXCEPT ![p] = r]
    /\ pc' = [pc EXCEPT ![p] = k.label]
    /\ outcome' = [outcome EXCEPT ![p] = k.out]
    /\ loc' = [loc EXCEPT ![p] = k.loc]
    /\ UNCHANGED <<adapter, calls>>

\* the locals once `headers = await self._setup_headers()` has run
WithHeaders == [InitLoc EXCEPT !.headers = SetupHeaders]

\* PracticeFusionIntegration.create(cookies, authorization): the instance
Init ==
    /\ adapter = [user_agent |-> <<"U", "A">>,
                  network_requester |-> None,
                  url |-> <<"p", "f">>,
                  cookies |-> <<"c", "k">>,
                  bearer_auth |-> <<"j", "w", "t">>]
    /\ op = [p \in Procs |-> "idle"]
    /\ pc = [p \in Procs |-> "idle"]
    /\ given = [p \in Procs |-> <<>>]
    /\ req = [p \in Procs |-> <<>>]
    /\ loc = [p \in Procs |-> InitLoc]
    /\ calls = [p \in Procs |-> <<>>]
    /\ outcome = [p \in Procs |-> NoOutcome]

\* next(item for item in body if item[key] == value, None): Ok(the first such
\* item, or <<>> for None), or the error that iterating the body raises
FindFirst(body, key, value) ==
    IF body.t = "none" THEN Err(PyError("TypeError"))
    ELSE IF body.t = "dict"
      \* the items of a dict are its keys: str[key] raises TypeError
      THEN (IF DOMAIN body.v = {} THEN Ok(<<>>) ELSE Err(PyError("TypeError")))
    ELSE LET hits == {j \in 1..Len(body.v) : body.v[j][key] = value}
         IN  IF hits = {} THEN Ok(<<>>)
             ELSE Ok(body.v[CHOOSE j \in hits : \A h \in hits : j <= h])

---------------------------------------------------------------------------
(* Identifiers and names *)

\* lines 403 and 799
DEFAULT_PROVIDER_GUID ==
    <<"d", "7", "4", "4", "6", "0", "9", "f", "-", "1", "b", "a", "b", "-", "4", "e", "1", "1", "-", "8", "9", "b", "d", "-", "6", "8", "0", "e", "8", "d", "1", "9", "a", "3", "9", "7">>
\* lines 430, 523 and 1012
DEFAULT_FACILITY_GUID ==
    <<"6", "8", "c", "c", "1", "f", "4", "c", "-", "0", "3", "7", "8", "-", "4", "2", "4", "f", "-", "9", "d", "1", "2", "-", "e", "3", "e", "e", "0", "a", "b", "9", "b", "4", "b", "e">>
\* lines 431 and 522
DEFAULT_PRACTICE_GUID ==
    <<"f", "6", "f", "2", "9", "0", "f", "1", "-", "9", "6", "8", "a", "-", "4", "9", "0", "0", "-", "a", "7", "a", "0", "-", "5", "5", "0", "0", "c", "e", "2", "a", "3", "0", "f", "7">>
\* line 646
DEFAULT_ENCOUNTER_GUID ==
    <<"9", "3", "8", "1", "c", "f", "b", "f", "-", "3", "7", "3", "b", "-", "4", "1", "8", "e", "-", "8", "1", "2", "c", "-", "e", "4", "4", "b", "9", "7", "8", "3", "5", "b", "e", "4">>

\* a value of the canonical identifier shape 8-4-4-4-12, all of character c
GuidOf(c) ==
    Chars(c, 8) \o <<"-">> \o Chars(c, 4) \o <<"-">> \o Chars(c, 4) \o <<"-">>
        \o Chars(c, 4) \o <<"-">> \o Chars(c, 12)

\* is_guid that counts the five groups of an identifier, not its four dashes
is_guid_five_groups(value) == Len(value) = 36 /\ Count(value, "-") = 5

\* is_guid, lines 600-601
is_guid(value) == Len(value) = 36 /\ Count(value, "-") = 4

---------------------------------------------------------------------------
(* create_patient *)

CreatePatientRequests ==
    [postalCode : {<<"9", "0", "2", "1", "0">>},
     firstName : {<<"J", "a", "n", "e">>},
     lastName : {<<"D", "o", "e">>},
     streetAddress1 : {<<"1", " ", "A">>}]

PostalBodies ==
    { Dict([city |-> <<"L", "A">>, stateProvince |-> <<"C", "A">>]),
      Dict([city |-> <<"S", "F">>, stateProvince |-> <<"C", "A">>]),
      Dict(<<>>) }

CreatePatientBodies == { Dict([patientPracticeGuid |-> <<"P", "1">>]) }

\* lines 164-237: patient_payload, from the request and postal_data
PatientPayload(request, postal_data) ==
    [firstName |-> request.firstName,
     lastName |-> request.lastName,
     postalCode |-> request.postalCode,
     streetAddress1 |-> request.streetAddress1,
     city |-> Get(postal_data.v, "city", None),
     state |-> Get(postal_data.v, "stateProvince", None)]

\* lines 162-237 with the failure of the lookup swallowed: the patient is
\* created with no city and no state
AfterPostalCode_ignores_failure(request, l, r) ==
    IF ~r.ok \/ r.val.t # "dict"
    THEN K_Goto("cp_create", [l EXCEPT !.payload = PatientPayload(request, Dict(<<>>))])
    ELSE K_Goto("cp_create", [l EXCEPT !.payload = PatientPayload(request, r.val)])

\* lines 162-237: after the postal-code lookup
AfterPostalCode(request, l, r) ==
    IF ~r.ok THEN K_Raise(r.exc, l)
    ELSE IF r.val.t # "dict" THEN K_Raise(PyError("AttributeError"), l)
    ELSE K_Goto("cp_create", [l EXCEPT !.payload = PatientPayload(request, r.val)])

\* lines 240-244: after the create-patient call
AfterCreatePatient(request, l, r) ==
    IF ~r.ok THEN K_Raise(r.exc, l) ELSE K_Return(r.val, l)

create_patient(p) ==
    \E request \in CreatePatientRequests :
        Enter(p, "create_patient", request, request, K_Goto("cp_postal", WithHeaders))

CP_PostalCode(p) ==
    /\ pc[p] = "cp_postal"
    /\ \E response \in Responses(PostalBodies) :
        LET r == MakeRequest(response)
        IN  Do(p, Call("postalCode", "GET",
                       [postalCode |-> req[p].postalCode], loc[p].headers),
               r, AfterPostalCode(req[p], loc[p], r))

CP_CreatePatient(p) ==
    /\ pc[p] = "cp_create"
    /\ \E response \in Responses(CreatePatientBodies) :
        LET r == MakeRequest(response)
        IN  Do(p, Call("create_patient", "PUT", loc[p].payload, loc[p].headers),
               r, AfterCreatePatient(req[p], loc[p], r))

---------------------------------------------------------------------------
(* Patient search, shared by upload_document, create_appointment and
   get_participant_guid_from_name *)

PATIENT_1 == <<"P", "1">>
PATIENT_2 == <<"P", "2">>

PatientSearchBodies ==
    { Dict([patients |-> <<>>]),
      Dict([patients |-> <<[patientPracticeGuid |-> PATIENT_1]>>]),
      Dict([patients |-> <<[patientPracticeGuid |-> PATIENT_2],
                           [patientPracticeGuid |-> PATIENT_1]>>]) }

\* `len(response.get("patients")) < 1` and `response["patients"][0][...]`:
\* Ok(the first patient's identifier), Ok(None) when there is no patient, or
\* the error the expression raises
FirstPatient(body) ==
    IF body.t # "dict" THEN Err(PyError("AttributeError"))
    \* len(None) when the body has no "patients"
    ELSE IF "patients" \notin DOMAIN body.v THEN Err(PyError("TypeError"))
    ELSE LET patients == body.v["patients"]
         IN  IF Len(patients) < 1 THEN Ok(None)
             ELSE Ok(patients[1].patientPracticeGuid)

PatientSearchCall(firstName, lastName, headers) ==
    Call("search_patient", "POST",
         [matchAll |-> TRUE, firstName |-> firstName, lastName |-> lastName],
         headers)

---------------------------------------------------------------------------
(* Datetimes *)

\* timedelta(minutes=30), models.py line 61
DefaultMinutes == 30

\* datetime.isoformat(): date and hour, minute, second
IsoFormat(t) ==
    [hour |-> t \div 3600, minute |-> (t \div 60) % 60, second |-> t % 60]

\* datetime.strftime("%Y-%m-%dT%H:%M"): date and hour, minute
StrfMinute(t) == [hour |-> t \div 3600, minute |-> (t \div 60) % 60]

---------------------------------------------------------------------------
(* AppointmentRequest and create_appointment *)

WELLNESS_EXAM == <<"W", "e", "l", "l", "n", "e", "s", "s", " ", "E", "x", "a", "m">>
PROCEDURE == <<"P", "r", "o", "c", "e", "d", "u", "r", "e">>

JANE == [firstName |-> <<"J", "a", "n", "e">>, lastName |-> <<"D", "o", "e">>,
         chiefComplaint |-> <<"f", "l", "u">>]

PROVIDER_NAME == <<"D", "r", " ", "A">>
FACILITY_NAME == <<"M", "a", "i", "n">>

\* the keyword data an AppointmentRequest is built from, as the schema
\* (models.py lines 40-56) accepts them
AppointmentData ==
    [facilityName : {None, FACILITY_NAME, GuidOf("c")},
     appointmentType : {WELLNESS_EXAM, PROCEDURE},
     schedulerEventParticipants : {<<>>, <<JANE>>},
     lastModifiedByProvider : {None, PROVIDER_NAME, GuidOf("b")},
     startAtDateTimeUtc : {36000, 36030},
     endAtDateTimeUtc : {NoneDT, 37800, 36045, 32400}]

\* AppointmentRequest.__init__ with timedelta(seconds=30) for timedelta(minutes=30)
AppointmentRequest_seconds(data) ==
    [data EXCEPT !.endAtDateTimeUtc =
        IF @ = NoneDT THEN data.startAtDateTimeUtc + DefaultMinutes ELSE @]

\* AppointmentRequest.__init__, models.py lines 58-61
AppointmentRequest(data) ==
    [data EXCEPT !.endAtDateTimeUtc =
        IF @ = NoneDT THEN data.startAtDateTimeUtc + DefaultMinutes * 60 ELSE @]

AppointmentTypeBodies ==
    { List(<<>>),
      List(<<[name |-> WELLNESS_EXAM, id |-> <<"T", "1">>],
             [name |-> WELLNESS_EXAM, id |-> <<"T", "2">>]>>) }

ProviderBodies ==
    { List(<<>>),
      List(<<[providerName |-> PROVIDER_NAME, providerGuid |-> <<"V", "1">>],
             [providerName |-> GuidOf("b"), providerGuid |-> <<"V", "2">>],
             [providerName |-> PROVIDER_NAME, providerGuid |-> <<"V", "3">>]>>) }

FacilityBodies ==
    { List(<<>>),
      List(<<[name |-> FACILITY_NAME, facilityGuid |-> <<"F", "1">>,
              practiceGuid |-> <<"R", "1">>],
             [name |-> GuidOf("c"), facilityGuid |-> <<"F", "2">>,
              practiceGuid |-> <<"R", "2">>]>>) }

ConflictBodies ==
    { Dict([conflictsExist |-> TRUE]),
      Dict([conflictsExist |-> FALSE]),
      Dict(<<>>) }

CreateAppointmentBodies == { Dict([schedulerEventGuid |-> <<"S", "1">>]) }

\* lines 458-496: scheduler_event_participants and appointment_payload
AppointmentPayload(request, l) ==
    [practiceGuid |-> l.practice_guid,
     schedulerEventPurposeTypeGuid |-> l.appointment_type_guid,
     schedulerEventParticipants |->
        << [schedulerEventParticipantTypeId |-> 3,
            participantGuid |-> l.patient_id,
            chiefComplaint |-> request.schedulerEventParticipants[1].chiefComplaint],
           [schedulerEventParticipantTypeId |-> 2,
            participantGuid |-> l.facility_guid],
           [schedulerEventParticipantTypeId |-> 1,
            participantGuid |-> l.provider_guid] >>,
     lastModifiedByProviderGuid |-> l.provider_guid,
     startAtDateTimeUtc |-> IsoFormat(request.startAtDateTimeUtc),
     endAtDateTimeUtc |-> IsoFormat(request.endAtDateTimeUtc),
     startAtDateTimeFlt |-> IsoFormat(request.startAtDateTimeUtc),
     endAtDateTimeFlt |-> IsoFormat(request.endAtDateTimeUtc)]

\* lines 458-516 without the call of line 498: the appointment is created
\* without a conflict check
ToConflicts_unchecked(request, l) ==
    K_Goto("ca_create", [l EXCEPT !.payload = AppointmentPayload(request, l)])

\* lines 458-503: the payload is built, then the conflict check is called
ToConflicts(request, l) ==
    K_Goto("ca_conflicts", [l EXCEPT !.payload = AppointmentPayload(request, l)])

\* lines 430-433: the default facility and practice, and whether to look one up
ToFacility(request, l) ==
    LET l1 == [l EXCEPT !.facility_guid = DEFAULT_FACILITY_GUID,
                        !.practice_guid = DEFAULT_PRACTICE_GUID]
    IN  IF Truthy(request.facilityName) THEN K_Goto("ca_facility", l1)
        ELSE ToConflicts(request, l1)

\* lines 402-406 without the test of line 406: the provider list is fetched
\* whether a provider was named or not
ToProvider_always_lists(request, l) ==
    K_Goto("ca_provider", [l EXCEPT !.provider_guid = DEFAULT_PROVIDER_GUID])

\* lines 402-406: the default provider, and whether to look one up
ToProvider(request, l) ==
    LET l1 == [l EXCEPT !.provider_guid = DEFAULT_PROVIDER_GUID]
    IN  IF Truthy(request.lastModifiedByProvider) THEN K_Goto("ca_provider", l1)
        ELSE ToFacility(request, l1)

\* lines 359-378: after the appointment-type list
AfterAppointmentTypes(request, l, r) ==
    IF ~r.ok THEN K_Raise(r.exc, l)
    ELSE LET appointment_type == FindFirst(r.val, "name", request.appointmentType)
         IN  IF ~appointment_type.ok THEN K_Raise(appointment_type.exc, l)
             ELSE IF appointment_type.val = <<>>
               THEN K_Raise(HTTPException(404, "Appointment type not found.", {}), l)
             ELSE K_Goto("ca_patient",
                    [l EXCEPT !.appointment_type_guid = appointment_type.val.id])

\* lines 388-406 with a patient identifier kept from an earlier invocation:
\* the search is issued, the identifier found earlier is used
AfterAppointmentPatient_remembers(request, l, r) ==
    IF ~r.ok THEN K_Raise(r.exc, l)
    ELSE LET patient == FirstPatient(r.val)
             earlier == {q \in DOMAIN loc : pc[q] = "done" /\ loc[q].patient_id # None}
         IN  IF ~patient.ok THEN K_Raise(patient.exc, l)
             ELSE IF patient.val = None
               THEN K_Raise(HTTPException(404, "Patient not found.", {}), l)
             ELSE IF earlier # {}
               THEN ToProvider(request,
                      [l EXCEPT !.patient_id = loc[CHOOSE q \in earlier : TRUE].patient_id])
             ELSE ToProvider(request, [l EXCEPT !.patient_id = patient.val])

\* lines 388-406: after the patient search
AfterAppointmentPatient(request, l, r) ==
    IF ~r.ok THEN K_Raise(r.exc, l)
    ELSE LET patient == FirstPatient(r.val)
         IN  IF ~patient.ok THEN K_Raise(patient.exc, l)
             ELSE IF patient.val = None
               THEN K_Raise(HTTPException(404, "Patient not found.", {}), l)
             ELSE ToProvider(request, [l EXCEPT !.patient_id = patient.val])

\* lines 408-433: after the provider list
AfterAppointmentProvider(request, l, r) ==
    IF ~r.ok THEN K_Raise(r.exc, l)
    ELSE LET provider == FindFirst(r.val, "providerName", request.lastModifiedByProvider)
         IN  IF ~provider.ok THEN K_Raise(provider.exc, l)
             ELSE IF provider.val = <<>>
               THEN K_Raise(HTTPException(404, "Provider not found.", {}), l)
             ELSE ToFacility(request,
                    [l EXCEPT !.provider_guid = provider.val.providerGuid])

\* lines 435-456 without line 455: the facility found is used with the
\* default practice
AfterAppointmentFacility_default_practice(request, l, r) ==
    IF ~r.ok THEN K_Raise(r.exc, l)
    ELSE LET facility == FindFirst(r.val, "name", request.facilityName)
         IN  IF ~facility.ok THEN K_Raise(facility.exc, l)
             ELSE IF facility.val = <<>>
               THEN K_Raise(HTTPException(404, "Facility not found.", {}), l)
             ELSE ToConflicts(request,
                    [l EXCEPT !.facility_guid = facility.val.facilityGuid])

\* lines 435-456: after the facility list
AfterAppointmentFacility(request, l, r) ==
    IF ~r.ok THEN K_Raise(r.exc, l)
    ELSE LET facility == FindFirst(r.val, "name", request.facilityName)
         IN  IF ~facility.ok THEN K_Raise(facility.exc, l)
             ELSE IF facility.val = <<>>
               THEN K_Raise(HTTPException(404, "Facility not found.", {}), l)
             ELSE ToConflicts(request,
                    [l EXCEPT !.facility_guid = facility.val.facilityGuid,
                              !.practice_guid = facility.val.practiceGuid])

\* check_for_conflicts, lines 254-262: the query of the conflict check
ConflictParams(provider_guid, facility_guid, start_at, end_at) ==
    [providerGuid |-> provider_guid,
     facilityGuid |-> facility_guid,
     startDateTimeFlt |-> StrfMinute(start_at),
     endDateTimeFlt |-> StrfMinute(end_at)]

\* check_for_conflicts that logs the conflict and does not raise
check_for_conflicts_logs_only(data) ==
    IF data.t # "dict" THEN Err(PyError("AttributeError")) ELSE Ok(TRUE)

\* check_for_conflicts, lines 270-278: Ok(TRUE) or the exception raised
check_for_conflicts(data) ==
    IF data.t # "dict" THEN Err(PyError("AttributeError"))
    ELSE IF Get(data.v, "conflictsExist", FALSE)
      THEN Err(HTTPException(400,
             "Conflicts exist with the selected time. Please select a different time.",
             {}))
    ELSE Ok(TRUE)

\* lines 266-278 and 498-505: after the conflict check
AfterConflicts(request, l, r) ==
    IF ~r.ok THEN K_Raise(r.exc, l)
    ELSE LET l1 == [l EXCEPT !.data = r.val]
         IN  IF ~check_for_conflicts(r.val).ok
               THEN K_Raise(check_for_conflicts(r.val).exc, l1)
             ELSE K_Goto("ca_create", l1)

\* lines 507-516: after the create-appointment call
AfterCreateAppointment(request, l, r) ==
    IF ~r.ok THEN K_Raise(r.exc, l) ELSE K_Return(r.val, l)

\* lines 353-357: the logger line reads schedulerEventParticipants[0]
create_appointment(p) ==
    \E data \in AppointmentData :
        Enter(p, "create_appointment", data, AppointmentRequest(data),
              IF data.schedulerEventParticipants = <<>>
              THEN K_Raise(PyError("IndexError"), InitLoc)
              ELSE K_Goto("ca_types", WithHeaders))

CA_AppointmentTypes(p) ==
    /\ pc[p] = "ca_types"
    /\ \E response \in Responses(AppointmentTypeBodies) :
        LET r == MakeRequest(response)
        IN  Do(p, Call("appointment_types", "GET", <<>>, loc[p].headers),
               r, AfterAppointmentTypes(req[p], loc[p], r))

CA_SearchPatient(p) ==
    /\ pc[p] = "ca_patient"
    /\ \E response \in Responses(PatientSearchBodies) :
        LET r == MakeRequest(response)
        IN  Do(p, PatientSearchCall(req[p].schedulerEventParticipants[1].firstName,
                                    req[p].schedulerEventParticipants[1].lastName,
                                    loc[p].headers),
               r, AfterAppointmentPatient(req[p], loc[p], r))

CA_Provider(p) ==
    /\ pc[p] = "ca_provider"
    /\ \E response \in Responses(ProviderBodies) :
        LET r == MakeRequest(response)
        IN  Do(p, Call("provider", "GET", <<>>, loc[p].headers),
               r, AfterAppointmentProvider(req[p], loc[p], r))

CA_Facility(p) ==
    /\ pc[p] = "ca_facility"
    /\ \E response \in Responses(FacilityBodies) :
        LET r == MakeRequest(response)
        IN  Do(p, Call("facility", "GET", <<>>, loc[p].headers),
               r, AfterAppointmentFacility(req[p], loc[p], r))

CA_Conflicts(p) ==
    /\ pc[p] = "ca_conflicts"
    /\ \E response \in Responses(ConflictBodies) :
        LET r == MakeRequest(response)
        IN  Do(p, Call("conflicts", "GET",
                       ConflictParams(loc[p].provider_guid, loc[p].facility_guid,
                                      req[p].startAtDateTimeUtc,
                                      req[p].endAtDateTimeUtc),
                       SetupHeaders),
               r, AfterConflicts(req[p], loc[p], r))

CA_CreateAppointment(p) ==
    /\ pc[p] = "ca_create"
    /\ \E response \in Responses(CreateAppointmentBodies) :
        LET r == MakeRequest(response)
        IN  Do(p, Call("create_appointment", "POST", loc[p].payload, loc[p].headers),
               r, AfterCreateAppointment(req[p], loc[p], r))

---------------------------------------------------------------------------
(* upload_document *)

FILE_A == [filename |-> <<"a", ".", "p", "d", "f">>, content |-> <<"A">>]
FILE_B == [filename |-> <<"b", ".", "p", "n", "g">>, content |-> <<"B">>]

\* the sequences over S of length at most n
SeqsUpTo(S, n) == UNION {[1..k -> S] : k \in 0..n}

DocumentUploadRequests ==
    [files : SeqsUpTo({FILE_A, FILE_B}, MaxFiles),
     firstName : {<<"J", "a", "n", "e">>},
     lastName : {<<"D", "o", "e">>}]

UploadBodies ==
    { List(<<[documentGuid |-> <<"D", "1">>, binaryStorageGuid |-> <<"B", "1">>]>>),
      List(<<>>) }

MetadataBodies == { Dict([documentGuid |-> <<"D", "1">>]) }

\* lines 305-316: the next file is uploaded, or lines 350-351 when none is left
ToUpload(request, l) ==
    IF l.i <= Len(request.files) THEN K_Goto("ud_upload", l)
    ELSE K_Return(Dict([uploaded_files |-> l.uploaded_documents]), l)

\* lines 289-305: after the patient search
AfterUploadPatient(request, l, r) ==
    IF ~r.ok THEN K_Raise(r.exc, l)
    ELSE LET patient == FirstPatient(r.val)
         IN  IF ~patient.ok THEN K_Raise(patient.exc, l)
             ELSE IF patient.val = None
               THEN K_Raise(HTTPException(404, "Patient not found.", {"error_code"}), l)
             ELSE ToUpload(request, [l EXCEPT !.patient_id = patient.val,
                                              !.uploaded_documents = <<>>,
                                              !.i = 1])

\* lines 314-339: after the upload of file i; upload_response[0]
AfterUpload(request, l, r) ==
    IF ~r.ok THEN K_Raise(r.exc, l)
    ELSE IF r.val.t = "none" THEN K_Raise(PyError("TypeError"), l)
    ELSE IF r.val.t = "dict" THEN K_Raise(PyError("KeyError"), l)
    ELSE IF r.val.v = <<>> THEN K_Raise(PyError("IndexError"), l)
    ELSE K_Goto("ud_meta", [l EXCEPT !.upload_data = r.val.v[1]])

\* lines 321-339: metadata_payload
MetadataPayload(upload_data, patient_id) ==
    [documentGuid |-> upload_data.documentGuid,
     binaryStorageGuid |-> upload_data.binaryStorageGuid,
     patientPracticeGuid |-> patient_id,
     transcriptGuids |-> <<>>]

\* lines 341-351 with the failure of a metadata call passed over: the loop
\* goes on with the next file
AfterMetadata_skips_failure(request, l, r) ==
    IF ~r.ok THEN ToUpload(request, [l EXCEPT !.i = @ + 1])
    ELSE ToUpload(request,
            [l EXCEPT !.uploaded_documents = Append(@, r.val), !.i = @ + 1])

\* lines 341-351: after the metadata call of file i
AfterMetadata(request, l, r) ==
    IF ~r.ok THEN K_Raise(r.exc, l)
    ELSE ToUpload(request,
            [l EXCEPT !.uploaded_documents = Append(@, r.val), !.i = @ + 1])

upload_document(p) ==
    \E request \in DocumentUploadRequests :
        Enter(p, "upload_document", request, request, K_Goto("ud_search", WithHeaders))

UD_SearchPatient(p) ==
    /\ pc[p] = "ud_search"
    /\ \E response \in Responses(PatientSearchBodies) :
        LET r == MakeRequest(response)
        IN  Do(p, PatientSearchCall(req[p].firstName, req[p].lastName, loc[p].headers),
               r, AfterUploadPatient(req[p], loc[p], r))

UD_Upload(p) ==
    /\ pc[p] = "ud_upload"
    /\ \E response \in Responses(UploadBodies) :
        LET r == MakeRequest(response)
        IN  Do(p, Call("upload_document", "POST",
                       [documents |-> req[p].files[loc[p].i]], loc[p].headers),
               r, AfterUpload(req[p], loc[p], r))

UD_Metadata(p) ==
    /\ pc[p] = "ud_meta"
    /\ \E response \in Responses(MetadataBodies) :
        LET r == MakeRequest(response)
        IN  Do(p, Call("update_document_meta", "PUT",
                       MetadataPayload(loc[p].upload_data, loc[p].patient_id),
                       loc[p].headers),
               r, AfterMetadata(req[p], loc[p], r))

---------------------------------------------------------------------------
(* get_combined_events *)

GetAppointmentsRequests ==
    [facilityName : {None, FACILITY_NAME, GuidOf("c")},
     startTime : {36000},
     endTime : {72000}]

SILICON_BEACH == <<"S", "I", "L", "I", "C", "O", "N", " ", "B", "E", "A", "C", "H", " ", "M", "E", "D", "I", "C", "A", "L", " ", "C", "E", "N", "T", "E", "R">>

CombinedEventBodies == { Dict([appointments |-> <<>>]) }

\* lines 547-568: the provider list is fetched next
ToEventsProviders(request, l) == K_Goto("ce_providers", l)

\* lines 521-525: the defaults, and whether the facility is looked up
ToEventsFacility(request, l) ==
    LET l1 == [l EXCEPT !.practice_guid = DEFAULT_PRACTICE_GUID,
                        !.facility_guid = DEFAULT_FACILITY_GUID]
    IN  IF Truthy(request.facilityName) THEN K_Goto("ce_facility", l1)
        ELSE ToEventsProviders(request, l1)

\* lines 529-545: after the facility list
AfterEventsFacility(request, l, r) ==
    IF ~r.ok THEN K_Raise(r.exc, l)
    ELSE LET facility_match == FindFirst(r.val, "name", request.facilityName)
         IN  IF ~facility_match.ok THEN K_Raise(facility_match.exc, l)
             ELSE IF facility_match.val = <<>>
               THEN K_Raise(HTTPException(404, "Facility not found.", {}), l)
             ELSE ToEventsProviders(request,
                    [l EXCEPT !.practice_guid = facility_match.val.practiceGuid,
                              !.facility_guid = facility_match.val.facilityGuid])

\* line 552: p.get("providerGuid")
HasProviderGuid(provider) ==
    "providerGuid" \in DOMAIN provider /\ Truthy(provider.providerGuid)

\* lines 551-553: [p["providerGuid"] for p in provider_data if p.get("providerGuid")]
ProviderGuidList(provider_data) ==
    IF provider_data.t = "none" THEN Err(PyError("TypeError"))
    ELSE IF provider_data.t = "dict"
      \* the items of a dict are its keys: str has no get
      THEN (IF DOMAIN provider_data.v = {} THEN Ok(<<>>)
            ELSE Err(PyError("AttributeError")))
    ELSE LET listed == SelectSeq(provider_data.v, HasProviderGuid)
         IN  Ok([j \in 1..Len(listed) |-> listed[j].providerGuid])

\* lines 556-568: the payload of the combined-events query
CombinedEventsPayload(request, l, provider_guid_list) ==
    [practiceDetailName |->
        Upper(IF Truthy(request.facilityName) THEN request.facilityName
              ELSE SILICON_BEACH),
     practiceGuid |-> l.practice_guid,
     providerGuidList |-> provider_guid_list,
     facilityGuid |-> l.facility_guid,
     startMinimumDateTimeUtc |-> IsoFormat(request.startTime),
     startMaximumDateTimeUtc |-> IsoFormat(request.endTime)]

\* lines 548-568: after the provider list
AfterEventsProviders(request, l, r) ==
    IF ~r.ok THEN K_Raise(r.exc, l)
    ELSE IF ~ProviderGuidList(r.val).ok THEN K_Raise(ProviderGuidList(r.val).exc, l)
    ELSE K_Goto("ce_events",
            [l EXCEPT !.payload =
                CombinedEventsPayload(request, l, ProviderGuidList(r.val).val)])

\* lines 571-575: after the combined-events query
AfterCombinedEvents(request, l, r) ==
    IF ~r.ok THEN K_Raise(r.exc, l) ELSE K_Return(r.val, l)

get_combined_events(p) ==
    \E request \in GetAppointmentsRequests :
        Enter(p, "get_combined_events", request, request,
              ToEventsFacility(request, WithHeaders))

CE_Facility(p) ==
    /\ pc[p] = "ce_facility"
    /\ \E response \in Responses(FacilityBodies) :
        LET r == MakeRequest(response)
        IN  Do(p, Call("facility", "GET", <<>>, loc[p].headers),
               r, AfterEventsFacility(req[p], loc[p], r))

CE_Providers(p) ==
    /\ pc[p] = "ce_providers"
    /\ \E response \in Responses(ProviderBodies) :
        LET r == MakeRequest(response)
        IN  Do(p, Call("provider", "GET", <<>>, loc[p].headers),
               r, AfterEventsProviders(req[p], loc[p], r))

CE_CombinedEvents(p) ==
    /\ pc[p] = "ce_events"
    /\ \E response \in Responses(CombinedEventBodies) :
        LET r == MakeRequest(response)
        IN  Do(p, Call("combined_event", "PUT", loc[p].payload, loc[p].headers),
               r, AfterCombinedEvents(req[p], loc[p], r))

---------------------------------------------------------------------------
(* update_appointment_details *)

UpdateAppointmentRequests ==
    [schedulerEventGuid : {<<"S", "1">>},
     startAtDateTimeUtc : {36000},
     endAtDateTimeUtc : {37800, 32400}]

\* lines 584-590: the payload of the update
UpdatePayload(request) ==
    [schedulerEventGuid |-> request.schedulerEventGuid,
     startAtDateTimeUtc |-> IsoFormat(request.startAtDateTimeUtc),
     endAtDateTimeUtc |-> IsoFormat(request.endAtDateTimeUtc),
     startAtDateTimeFlt |-> IsoFormat(request.startAtDateTimeUtc),
     endAtDateTimeFlt |-> IsoFormat(request.endAtDateTimeUtc)]

\* lines 593-597: after the update call
AfterUpdateAppointment(request, l, r) ==
    IF ~r.ok THEN K_Raise(r.exc, l) ELSE K_Return(r.val, l)

update_appointment_details(p) ==
    \E request \in UpdateAppointmentRequests :
        Enter(p, "update_appointment_details", request, request,
              K_Goto("ua_update", WithHeaders))

UA_Update(p) ==
    /\ pc[p] = "ua_update"
    /\ \E response \in Responses(CreateAppointmentBodies) :
        LET r == MakeRequest(response)
        IN  Do(p, Call("create_appointment", "PUT", UpdatePayload(req[p]),
                       loc[p].headers),
               r, AfterUpdateAppointment(req[p], loc[p], r))

---------------------------------------------------------------------------
(* The helpers of get_encounters and create_soap_notes *)

JANE_DOE == <<"J", "a", "n", "e", " ", "D", "o", "e">>
ANN_LEE_ROY == <<"A", "n", "n", " ", "L", "e", "e", " ", "R", "o", "y">>
CHER == <<"C", "h", "e", "r">>
\* 36 characters, five of them '-': a name, not an identifier
FIVE_DASHES == Chars("x", 31) \o Chars("-", 5)

PatientValues == {GuidOf("a"), JANE_DOE, ANN_LEE_ROY, CHER, <<>>, FIVE_DASHES}

\* lines 972-980 and 1001-1009: the participant is the value itself when it
\* is_guid; else split()[0] and split()[-1] are read (IndexError when there is
\* no token) and get_participant_guid_from_name is called; `then` is how the
\* code goes on once it has the participant, `search` the label of the search
ToParticipant(value, l, search, then) ==
    IF is_guid(value) THEN then
    ELSE IF Split(value) = <<>> THEN K_Raise(PyError("IndexError"), l)
    ELSE K_Goto(search, l)

\* get_participant_guid_from_name, lines 606-616: the search it issues for
\* firstname = split()[0], lastname = split()[-1]
ParticipantSearchCall(value, headers) ==
    PatientSearchCall(Split(value)[1], Split(value)[Len(Split(value))], headers)

\* get_participant_guid_from_name, lines 618-621: Ok(identifier) or the
\* exception raised
get_participant_guid_from_name(response) ==
    IF ~FirstPatient(response).ok THEN FirstPatient(response)
    ELSE IF FirstPatient(response).val = None
      THEN Err(HTTPException(404, "Patient not found.", {}))
    ELSE FirstPatient(response)

\* get_facility_guid_from_name that falls back to the default facility when
\* no facility has the name
get_facility_guid_from_name_default(response, facilityname) ==
    LET facility == FindFirst(response, "name", facilityname)
    IN  IF ~facility.ok THEN facility
        ELSE IF facility.val = <<>> THEN Ok(DEFAULT_FACILITY_GUID)
        ELSE Ok(facility.val.facilityGuid)

\* get_facility_guid_from_name, lines 629-632
get_facility_guid_from_name(response, facilityname) ==
    LET facility == FindFirst(response, "name", facilityname)
    IN  IF ~facility.ok THEN facility
        ELSE IF facility.val = <<>>
          THEN Err(HTTPException(404, "Facility not found.", {}))
        ELSE Ok(facility.val.facilityGuid)

\* get_encounter_guid_from_display_name that raises, as the other lookups
\* do, when no event has the display name
get_encounter_guid_from_display_name_strict(response, displayName) ==
    IF response.t # "dict" THEN Err(PyError("AttributeError"))
    ELSE LET event == FindFirst(List(Get(response.v, "events", <<>>)),
                                "displayName", displayName)
         IN  IF event.val # <<>> THEN Ok(event.val.eventTypeGuid)
             ELSE Err(HTTPException(404, "Encounter type not found.", {}))

\* get_encounter_guid_from_display_name, lines 641-647
get_encounter_guid_from_display_name(response, displayName) ==
    IF response.t # "dict" THEN Err(PyError("AttributeError"))
    ELSE LET event == FindFirst(List(Get(response.v, "events", <<>>)),
                                "displayName", displayName)
         IN  Ok(IF event.val # <<>> THEN event.val.eventTypeGuid
                ELSE DEFAULT_ENCOUNTER_GUID)

RICH_OPEN ==
    <<"<", "d", "i", "v", " ", "c", "l", "a", "s", "s", "=", "\"", "p", "f", "-", "r", "i", "c", "h", "-", "t", "e", "x", "t", "\"", ">", "<", "p", ">">>
RICH_CLOSE == <<"<", "/", "p", ">", "<", "/", "d", "i", "v", ">">>

\* format_rich_text with `if text is not None` for `if text`: the empty
\* string is wrapped too
format_rich_text_wraps_empty(text) ==
    IF text # None THEN RICH_OPEN \o text \o RICH_CLOSE ELSE None

\* format_rich_text, lines 732-733
format_rich_text(text) ==
    IF Truthy(text) THEN RICH_OPEN \o text \o RICH_CLOSE ELSE None

---------------------------------------------------------------------------
(* get_encounters *)

TranscriptSummaryBodies == { Dict([transcripts |-> <<>>]) }

\* lines 982-989: the summaries are fetched next
ToSummaries(l) == K_Goto("ge_summaries", l)

\* lines 975-983: after the patient search
AfterEncountersPatient(request, l, r) ==
    IF ~r.ok THEN K_Raise(r.exc, l)
    ELSE IF ~get_participant_guid_from_name(r.val).ok
      THEN K_Raise(get_participant_guid_from_name(r.val).exc, l)
    ELSE ToSummaries([l EXCEPT !.participant_guid =
                        get_participant_guid_from_name(r.val).val])

\* lines 987-992: after the summaries call
AfterSummaries(request, l, r) ==
    IF ~r.ok THEN K_Raise(r.exc, l) ELSE K_Return(r.val, l)

get_encounters(p) ==
    \E patientNameOrParticipantGuid \in PatientValues :
        Enter(p, "get_encounters", patientNameOrParticipantGuid,
              [patientNameOrParticipantGuid |-> patientNameOrParticipantGuid],
              ToParticipant(patientNameOrParticipantGuid, WithHeaders, "ge_patient",
                  ToSummaries([WithHeaders EXCEPT !.participant_guid =
                                  patientNameOrParticipantGuid])))

GE_SearchPatient(p) ==
    /\ pc[p] = "ge_patient"
    /\ \E response \in Responses(PatientSearchBodies) :
        LET r == MakeRequest(response)
        IN  Do(p, ParticipantSearchCall(req[p].patientNameOrParticipantGuid,
                                        loc[p].headers),
               r, AfterEncountersPatient(req[p], loc[p], r))

GE_Summaries(p) ==
    /\ pc[p] = "ge_summaries"
    /\ \E response \in Responses(TranscriptSummaryBodies) :
        LET r == MakeRequest(response)
        IN  Do(p, Call("transcript_summaries", "GET",
                       [patientPracticeGuid |-> loc[p].participant_guid],
                       loc[p].headers),
               r, AfterSummaries(req[p], loc[p], r))

---------------------------------------------------------------------------
(* PatientTranscriptRequest *)

OFFICE_VISIT == <<"O", "f", "f", "i", "c", "e", " ", "V", "i", "s", "i", "t">>
LETTER == <<"L", "e", "t", "t", "e", "r">>
NOTE == <<"n", "o", "t", "e">>

MED_A == [searchCriteria |-> <<"a", "s", "p">>,
          drugNameOrNdc |-> <<"A", "s", "p", "i", "r", "i", "n">>]
MED_B == [searchCriteria |-> <<"i", "b", "u">>,
          drugNameOrNdc |-> <<"0", "0", "7">>]

\* an update of transcript GuidOf("t") of patient GuidOf("a") that sets
\* nothing; in `medication`, <<>> stands for None and for the empty list,
\* which `if request.medication` does not tell apart
BareTranscriptData ==
    [patientNameOrParticipantGuid |-> GuidOf("a"),
     transcriptGuid |-> GuidOf("t"),
     facilityNameOrGuid |-> None,
     eventDisplayName |-> None,
     healthConcernNote |-> None,
     chiefComplaint |-> None,
     subjectiveNote |-> None,
     objectiveNote |-> None,
     assessmentNote |-> None,
     planNote |-> None,
     carePlanNotes |-> None,
     medication |-> <<>>,
     providerNameOrGuid |-> None]

\* requests that differ in who and what is resolved
ResolutionData ==
    { [BareTranscriptData EXCEPT !.patientNameOrParticipantGuid = patient,
                                 !.transcriptGuid = transcript,
                                 !.facilityNameOrGuid = facility,
                                 !.eventDisplayName = event,
                                 !.chiefComplaint = NOTE] :
        patient \in PatientValues,
        transcript \in {None, GuidOf("t")},
        facility \in {None, FACILITY_NAME, GuidOf("c")},
        event \in {None, OFFICE_VISIT, LETTER} }

\* updates that differ in the sections they set
SectionData ==
    { [BareTranscriptData EXCEPT !.healthConcernNote = sections[1],
                                 !.chiefComplaint = sections[2],
                                 !.subjectiveNote = sections[3],
                                 !.objectiveNote = sections[4],
                                 !.assessmentNote = sections[5],
                                 !.planNote = sections[6],
                                 !.carePlanNotes = sections[7]] :
        sections \in [1..7 -> {None, NOTE}] }

\* updates with sections that are the empty string
BlankData ==
    { [BareTranscriptData EXCEPT !.healthConcernNote = blank[1],
                                 !.chiefComplaint = blank[2],
                                 !.subjectiveNote = blank[3],
                                 !.planNote = NOTE,
                                 !.carePlanNotes = blank[4]] :
        blank \in [1..4 -> {<<>>, NOTE}] }

\* requests with every kind of section, creating the transcript or not
FullData ==
    { [BareTranscriptData EXCEPT !.transcriptGuid = transcript,
                                 !.healthConcernNote = concern,
                                 !.chiefComplaint = NOTE,
                                 !.subjectiveNote = NOTE,
                                 !.objectiveNote = NOTE,
                                 !.assessmentNote = NOTE,
                                 !.planNote = NOTE,
                                 !.carePlanNotes = plan,
                                 !.medication = medication] :
        transcript \in {None, GuidOf("t")},
        concern \in {None, NOTE},
        plan \in {None, NOTE},
        medication \in {<<>>, <<MED_A>>} }

\* requests that differ in their medications and provider
MedicationData ==
    { [BareTranscriptData EXCEPT !.medication = medication,
                                 !.providerNameOrGuid = provider] :
        medication \in SeqsUpTo({MED_A, MED_B}, MaxMeds),
        provider \in {None, <<>>, PROVIDER_NAME, GuidOf("b")} }

PatientTranscriptRequests ==
    ResolutionData \cup SectionData \cup BlankData \cup FullData \cup MedicationData

---------------------------------------------------------------------------
(* What the remote system answers to the calls of create_soap_notes *)

EncounterTypeBodies ==
    { Dict([events |-> <<[displayName |-> OFFICE_VISIT,
                          eventTypeGuid |-> <<"E", "T", "1">>]>>]),
      Dict([events |-> <<>>]),
      Dict(<<>>) }

CreateTranscriptBodies ==
    { Dict([transcript |-> [transcriptGuid |-> <<"T", "R", "1">>]]) }

HealthConcernBodies ==
    { Dict([patientHealthConcerns |-> <<>>]),
      Dict(<<>>),
      Dict([patientHealthConcerns |->
              <<[patientHealthConcernGuid |-> <<"H", "1">>],
                [patientHealthConcernGuid |-> <<"H", "2">>]>>]) }

\* the body of a call whose response the code does not read
WriteBodies == { Dict(<<>>) }

CARE_PLAN == <<"C", "a", "r", "e", " ", "p", "l", "a", "n">>
VITALS == <<"V", "i", "t", "a", "l", "s">>

TranscriptEventBodies ==
    { Dict([transcriptEvents |-> <<>>]),
      Dict([transcriptEvents |->
              <<[eventType |-> [displayName |-> VITALS],
                 isNegated |-> FALSE, transcriptEventGuid |-> <<"E", "V", "1">>]>>]),
      Dict([transcriptEvents |->
              <<[eventType |-> [displayName |-> VITALS],
                 isNegated |-> FALSE, transcriptEventGuid |-> <<"E", "V", "1">>],
                [eventType |-> [displayName |-> CARE_PLAN],
                 isNegated |-> FALSE, transcriptEventGuid |-> <<"E", "V", "2">>]>>]) }

DRUG_ASPIRIN == [drugName |-> <<"a", "s", "p", "i", "r", "i", "n">>,
                 ndc |-> <<"0", "0", "1">>]
DRUG_IBUPROFEN == [drugName |-> <<"i", "b", "u">>, ndc |-> <<"0", "0", "7">>]

DrugBodies ==
    { List(<<>>), List(<<DRUG_ASPIRIN, DRUG_IBUPROFEN>>) }

ALERT == <<"!">>

\* lines 873-877
AlertKeys == {"drugInteractionAlerts", "drugAllergyAlerts", "drugAlertErrors"}

\* answers of the interaction screen: with all three keys or some of them,
\* with and without an alert
InteractionBodies ==
    { Dict([drugInteractionAlerts |-> <<>>, drugAllergyAlerts |-> <<>>,
            drugAlertErrors |-> <<>>]),
      Dict(<<>>),
      Dict([drugAllergyAlerts |-> <<>>]),
      Dict([drugInteractionAlerts |-> <<ALERT>>, drugAllergyAlerts |-> <<>>,
            drugAlertErrors |-> <<>>]),
      Dict([drugInteractionAlerts |-> <<>>, drugAllergyAlerts |-> <<ALERT>>,
            drugAlertErrors |-> <<ALERT, ALERT>>]),
      Dict([drugAllergyAlerts |-> <<ALERT>>]),
      Dict([drugInteractionAlerts |-> <<>>, drugAlertErrors |-> <<ALERT>>]) }

AddMedicationBodies ==
    { Dict([medicationGuid |-> <<"M", "1">>]),
      Dict([medicationGuid |-> <<"M", "2">>]) }

---------------------------------------------------------------------------
(* process_medications *)

\* lines 1076-1085: create_soap_notes returns
SoapReturn(request, l) ==
    K_Return(Dict([status |-> TRUE,
                   message |->
                     IF ~Truthy(request.transcriptGuid)
                     THEN <<"Encounter transcript with id: ", l.transcript_guid,
                            " created successfully">>
                     ELSE <<"Encounter transcript with id: ", request.transcriptGuid,
                            " updated successfully">>]), l)

\* line 826: the next medication is searched, or the loop and with it
\* process_medications ends, and create_soap_notes returns
ToDrugSearch(request, l) ==
    IF l.i <= Len(request.medication) THEN K_Goto("pm_search", l)
    ELSE SoapReturn(request, l)

\* lines 799-808: the provider of process_medications
ToMedications(request, l) ==
    LET l1 == [l EXCEPT !.provider_guid = DEFAULT_PROVIDER_GUID, !.i = 1]
    IN  IF Truthy(request.providerNameOrGuid)
        THEN IF is_guid(request.providerNameOrGuid)
             THEN ToDrugSearch(request,
                     [l1 EXCEPT !.provider_guid = request.providerNameOrGuid])
             ELSE K_Goto("pm_provider", l1)
        ELSE ToDrugSearch(request, l1)

\* lines 806-826: after the provider list
AfterMedicationProvider(request, l, r) ==
    IF ~r.ok THEN K_Raise(r.exc, l)
    ELSE LET provider == FindFirst(r.val, "providerName", request.providerNameOrGuid)
         IN  IF ~provider.ok THEN K_Raise(provider.exc, l)
             ELSE IF provider.val = <<>>
               THEN K_Raise(HTTPException(404,
                      <<"Provider ", request.providerNameOrGuid, " not found.">>, {}), l)
             ELSE ToDrugSearch(request,
                    [l EXCEPT !.provider_guid = provider.val.providerGuid])

\* lines 839-847: the first drug whose name is med's, whatever the case, or
\* whose ndc is med's; <<>> for None
MatchDrug(drug_data, med) ==
    IF drug_data.t = "none" THEN Err(PyError("TypeError"))
    ELSE IF drug_data.t = "dict"
      THEN (IF DOMAIN drug_data.v = {} THEN Ok(<<>>) ELSE Err(PyError("TypeError")))
    ELSE LET hits == {j \in 1..Len(drug_data.v) :
                        \/ Lower(drug_data.v[j].drugName) = Lower(med.drugNameOrNdc)
                        \/ drug_data.v[j].ndc = med.drugNameOrNdc}
         IN  IF hits = {} THEN Ok(<<>>)
             ELSE Ok(drug_data.v[CHOOSE j \in hits : \A h \in hits : j <= h])

\* lines 833-863: after the drug search of medication i
AfterDrugSearch(request, l, r) ==
    IF ~r.ok THEN K_Raise(r.exc, l)
    ELSE LET matched_drug == MatchDrug(r.val, request.medication[l.i])
         IN  IF ~matched_drug.ok THEN K_Raise(matched_drug.exc, l)
             ELSE IF matched_drug.val = <<>>
               THEN K_Raise(HTTPException(404,
                      <<"No matching drug found for ",
                        request.medication[l.i].searchCriteria>>, {}), l)
             ELSE K_Goto("pm_screen", [l EXCEPT !.matched_drug = matched_drug.val])

\* the screen of lines 871-894 with drugAlertErrors left out of the keys
\* that `any` reads
ScreenInteractions_two_lists(interaction_data, matched_drug) ==
    IF interaction_data.t # "dict" THEN Err(PyError("AttributeError"))
    ELSE IF \E key \in {"drugInteractionAlerts", "drugAllergyAlerts"} :
                Get(interaction_data.v, key, <<>>) # <<>>
      THEN IF ~(AlertKeys \subseteq DOMAIN interaction_data.v)
             THEN Err(PyError("KeyError"))
           ELSE Err(HTTPException(400,
                  Dict([message |-> <<"blocked:", matched_drug.drugName>>,
                        alerts |-> [key \in AlertKeys |-> interaction_data.v[key]]]),
                  {}))
    ELSE Ok(TRUE)

\* lines 871-894: Ok(TRUE) when no alert list has an alert, else the exception
\* raised: building the detail reads all three keys of interaction_data
ScreenInteractions(interaction_data, matched_drug) ==
    IF interaction_data.t # "dict" THEN Err(PyError("AttributeError"))
    ELSE IF \E key \in AlertKeys : Get(interaction_data.v, key, <<>>) # <<>>
      THEN IF ~(AlertKeys \subseteq DOMAIN interaction_data.v)
             THEN Err(PyError("KeyError"))
           ELSE Err(HTTPException(400,
                  Dict([message |->
                          <<"Potential drug interactions or allergies detected between patient and drug:",
                            matched_drug.drugName, ".">>,
                        alerts |->
                          [drugInteractionAlerts |->
                              interaction_data.v["drugInteractionAlerts"],
                           drugAllergyAlerts |->
                              interaction_data.v["drugAllergyAlerts"],
                           drugAlertErrors |->
                              interaction_data.v["drugAlertErrors"]]]), {}))
    ELSE Ok(TRUE)

\* lines 864-934 without the test of lines 871-894: the medication is added
\* whatever the screen answered
AfterScreen_adds_regardless(request, l, r) ==
    IF ~r.ok THEN K_Raise(r.exc, l)
    ELSE K_Goto("pm_add", [l EXCEPT !.interaction_data = r.val])

\* lines 864-934: after the interaction screen of medication i
AfterScreen(request, l, r) ==
    IF ~r.ok THEN K_Raise(r.exc, l)
    ELSE LET l1 == [l EXCEPT !.interaction_data = r.val]
         IN  IF ~ScreenInteractions(r.val, l.matched_drug).ok
               THEN K_Raise(ScreenInteractions(r.val, l.matched_drug).exc, l1)
             ELSE K_Goto("pm_add", l1)

\* lines 896-928: medication_payload
MedicationPayload(l) ==
    [drugName |-> l.matched_drug.drugName,
     ndc |-> l.matched_drug.ndc,
     patientPracticeGuid |-> l.participant_guid,
     providerGuid |-> l.provider_guid,
     transcriptGuid |-> l.transcript_guid]

\* lines 936-954: after the add-medication call; medication_response["medicationGuid"]
AfterAddMedication(request, l, r) ==
    IF ~r.ok THEN K_Raise(r.exc, l)
    ELSE IF r.val.t # "dict" THEN K_Raise(PyError("TypeError"), l)
    ELSE IF "medicationGuid" \notin DOMAIN r.val.v THEN K_Raise(PyError("KeyError"), l)
    ELSE K_Goto("pm_assoc", [l EXCEPT !.medication_guid = r.val.v["medicationGuid"]])

\* lines 956-961 with the provider of lines 801-824 resolved inside the loop:
\* a provider name is looked up again for the next medication
AfterAssociate_resolves_again(request, l, r) ==
    IF ~r.ok THEN K_Raise(r.exc, l)
    ELSE IF /\ l.i + 1 <= Len(request.medication)
            /\ Truthy(request.providerNameOrGuid)
            /\ ~is_guid(request.providerNameOrGuid)
      THEN K_Goto("pm_provider", [l EXCEPT !.i = @ + 1])
    ELSE ToDrugSearch(request, [l EXCEPT !.i = @ + 1])

\* lines 956-961 and 826: after the association call
AfterAssociate(request, l, r) ==
    IF ~r.ok THEN K_Raise(r.exc, l)
    ELSE ToDrugSearch(request, [l EXCEPT !.i = @ + 1])

PM_Provider(p) ==
    /\ pc[p] = "pm_provider"
    /\ \E response \in Responses(ProviderBodies) :
        LET r == MakeRequest(response)
        IN  Do(p, Call("provider", "GET", <<>>, loc[p].headers),
               r, AfterMedicationProvider(req[p], loc[p], r))

PM_DrugSearch(p) ==
    /\ pc[p] = "pm_search"
    /\ \E response \in Responses(DrugBodies) :
        LET r == MakeRequest(response)
        IN  Do(p, Call("search_drug", "GET",
                       [searchCriteria |-> req[p].medication[loc[p].i].searchCriteria],
                       loc[p].headers),
               r, AfterDrugSearch(req[p], loc[p], r))

PM_Screen(p) ==
    /\ pc[p] = "pm_screen"
    /\ \E response \in Responses(InteractionBodies) :
        LET r == MakeRequest(response)
        IN  Do(p, Call("drug_interactions", "POST",
                       [patientPracticeGuid |-> loc[p].participant_guid,
                        drugInputs |-> <<loc[p].matched_drug>>],
                       loc[p].headers),
               r, AfterScreen(req[p], loc[p], r))

PM_AddMedication(p) ==
    /\ pc[p] = "pm_add"
    /\ \E response \in Responses(AddMedicationBodies) :
        LET r == MakeRequest(response)
        IN  Do(p, Call("add_medication", "POST", MedicationPayload(loc[p]),
                       loc[p].headers),
               r, AfterAddMedication(req[p], loc[p], r))

PM_Associate(p) ==
    /\ pc[p] = "pm_assoc"
    /\ \E response \in Responses(WriteBodies) :
        LET r == MakeRequest(response)
        IN  Do(p, Call("add_transcript_medication", "POST",
                       [patientPracticeGuid |-> loc[p].participant_guid,
                        medicationGuid |-> loc[p].medication_guid,
                        transcriptGuid |-> loc[p].transcript_guid],
                       loc[p].headers),
               r, AfterAssociate(req[p], loc[p], r))

---------------------------------------------------------------------------
(* create_soap_notes *)

\* lines 1046-1052: the keys of `fields`, in order
FieldNames ==
    <<"chiefComplaintNote", "subjectiveNote", "objectiveNote", "assessmentNote",
      "planNote">>

\* lines 1046-1052: the values of `fields`
FieldValue(request, k) ==
    CASE k = 1 -> request.chiefComplaint
      [] k = 2 -> format_rich_text(request.subjectiveNote)
      [] k = 3 -> format_rich_text(request.objectiveNote)
      [] k = 4 -> format_rich_text(request.assessmentNote)
      [] k = 5 -> format_rich_text(request.planNote)

\* The sections of lines 1041-1072, numbered in the order of the code:
\* 1 the health concern, 2..6 the five fields, 7 the care plan, 8 the
\* medications.  Whether section k is applied:
SectionApplies(request, k) ==
    CASE k = 1 -> Truthy(request.healthConcernNote)
      [] k \in 2..6 -> Truthy(FieldValue(request, k - 1))
      [] k = 7 -> Truthy(request.carePlanNotes)
      [] k = 8 -> request.medication # <<>>

\* lines 1041-1085 with the sections taken from the last one back
ToSection_last_first(request, l, k) ==
    LET applied == {j \in k..8 : SectionApplies(request, j)}
    IN  IF applied = {} THEN SoapReturn(request, l)
        ELSE LET j == CHOOSE j \in applied : \A h \in applied : j >= h
             IN  CASE j = 1 -> K_Goto("sn_hc_list", l)
                   [] j \in 2..6 -> K_Goto("sn_patch", [l EXCEPT !.i = j - 1])
                   [] j = 7 -> K_Goto("sn_cp_events", l)
                   [] j = 8 -> ToMedications(request, l)

\* lines 1041-1085: the code from section k on, up to its next call
ToSection(request, l, k) ==
    LET applied == {j \in k..8 : SectionApplies(request, j)}
    IN  IF applied = {} THEN SoapReturn(request, l)
        ELSE LET j == CHOOSE j \in applied : \A h \in applied : j <= h
             IN  CASE j = 1 -> K_Goto("sn_hc_list", l)
                   [] j \in 2..6 -> K_Goto("sn_patch", [l EXCEPT !.i = j - 1])
                   [] j = 7 -> K_Goto("sn_cp_events", l)
                   [] j = 8 -> ToMedications(request, l)

\* lines 1023-1039 without the test of line 1025: a transcript is created
\* whether one was given or not
ToTranscript_always_creates(request, l) ==
    K_Goto("sn_encounter", [l EXCEPT !.transcript_guid = request.transcriptGuid])

\* lines 1023-1039: the transcript is the one given, or one is created
ToTranscript(request, l) ==
    LET l1 == [l EXCEPT !.transcript_guid = request.transcriptGuid]
    IN  IF ~Truthy(request.transcriptGuid) THEN K_Goto("sn_encounter", l1)
        ELSE ToSection(request, l1, 1)

\* lines 1012-1021 with the facility looked up only where it is used: when a
\* transcript is to be created
ToSoapFacility_only_when_creating(request, l) ==
    LET l1 == [l EXCEPT !.facility_guid = DEFAULT_FACILITY_GUID]
    IN  IF Truthy(request.facilityNameOrGuid) /\ ~Truthy(request.transcriptGuid)
        THEN IF is_guid(request.facilityNameOrGuid)
             THEN ToTranscript(request,
                     [l1 EXCEPT !.facility_guid = request.facilityNameOrGuid])
             ELSE K_Goto("sn_facility", l1)
        ELSE ToTranscript(request, l1)

\* lines 1012-1021: the facility
ToSoapFacility(request, l) ==
    LET l1 == [l EXCEPT !.facility_guid = DEFAULT_FACILITY_GUID]
    IN  IF Truthy(request.facilityNameOrGuid)
        THEN IF is_guid(request.facilityNameOrGuid)
             THEN ToTranscript(request,
                     [l1 EXCEPT !.facility_guid = request.facilityNameOrGuid])
             ELSE K_Goto("sn_facility", l1)
        ELSE ToTranscript(request, l1)

\* lines 1004-1012: after the patient search
AfterSoapPatient(request, l, r) ==
    IF ~r.ok THEN K_Raise(r.exc, l)
    ELSE IF ~get_participant_guid_from_name(r.val).ok
      THEN K_Raise(get_participant_guid_from_name(r.val).exc, l)
    ELSE ToSoapFacility(request,
            [l EXCEPT !.participant_guid = get_participant_guid_from_name(r.val).val])

\* lines 1018-1023: after the facility list
AfterSoapFacility(request, l, r) ==
    IF ~r.ok THEN K_Raise(r.exc, l)
    ELSE IF ~get_facility_guid_from_name(r.val, request.facilityNameOrGuid).ok
      THEN K_Raise(get_facility_guid_from_name(r.val, request.facilityNameOrGuid).exc, l)
    ELSE ToTranscript(request,
            [l EXCEPT !.facility_guid =
                get_facility_guid_from_name(r.val, request.facilityNameOrGuid).val])

\* lines 1027-1032: after the encounter-type list
AfterEncounterTypes(request, l, r) ==
    IF ~r.ok THEN K_Raise(r.exc, l)
    ELSE IF ~get_encounter_guid_from_display_name(r.val, request.eventDisplayName).ok
      THEN K_Raise(get_encounter_guid_from_display_name(
                      r.val, request.eventDisplayName).exc, l)
    ELSE K_Goto("sn_create_transcript",
            [l EXCEPT !.encounter_guid =
                get_encounter_guid_from_display_name(r.val, request.eventDisplayName).val])

\* lines 1032-1039: after create_transcript; transcript_data["transcript"]["transcriptGuid"]
AfterCreateTranscript(request, l, r) ==
    IF ~r.ok THEN K_Raise(r.exc, l)
    ELSE IF r.val.t # "dict" THEN K_Raise(PyError("TypeError"), l)
    ELSE IF "transcript" \notin DOMAIN r.val.v THEN K_Raise(PyError("KeyError"), l)
    ELSE ToSection(request,
            [l EXCEPT !.transcript_guid = r.val.v["transcript"].transcriptGuid], 1)

\* create_health_concern without lines 691-701: a concern is created whether
\* the patient has one or not
AfterHealthConcernList_always_creates(request, l, r) ==
    IF ~r.ok THEN K_Raise(r.exc, l)
    ELSE IF r.val.t # "dict" THEN K_Raise(PyError("AttributeError"), l)
    ELSE K_Goto("sn_hc_write",
            [l EXCEPT !.health_concern =
                [method |-> "POST", patientHealthConcernGuid |-> None]])

\* create_health_concern, lines 687-701: after the health-concern list
AfterHealthConcernList(request, l, r) ==
    IF ~r.ok THEN K_Raise(r.exc, l)
    ELSE IF r.val.t # "dict" THEN K_Raise(PyError("AttributeError"), l)
    ELSE LET concerns == Get(r.val.v, "patientHealthConcerns", <<>>)
         IN  K_Goto("sn_hc_write",
                [l EXCEPT !.health_concern =
                    IF concerns # <<>>
                    THEN [method |-> "PUT",
                          patientHealthConcernGuid |->
                              concerns[1].patientHealthConcernGuid]
                    ELSE [method |-> "POST", patientHealthConcernGuid |-> None]])

\* create_health_concern, lines 704-709, and line 1046 on: after the write
AfterHealthConcernWrite(request, l, r) ==
    IF ~r.ok THEN K_Raise(r.exc, l) ELSE ToSection(request, l, 2)

\* update_transcript_field that swallows the error of its request: the loop
\* of line 1054 goes on with the next field
AfterPatch_ignores_failure(request, l, r) == ToSection(request, l, l.i + 2)

\* update_transcript_field, lines 725-730, and the loop of line 1054: after
\* the patch of field i
AfterPatch(request, l, r) ==
    IF ~r.ok THEN K_Raise(r.exc, l) ELSE ToSection(request, l, l.i + 2)

\* update_care_plan_notes, lines 747-762: after the transcript-event list
AfterCarePlanEvents(request, l, r) ==
    IF ~r.ok THEN K_Raise(r.exc, l)
    ELSE IF r.val.t # "dict" THEN K_Raise(PyError("AttributeError"), l)
    \* iterating None when the body has no "transcriptEvents"
    ELSE IF "transcriptEvents" \notin DOMAIN r.val.v THEN K_Raise(PyError("TypeError"), l)
    ELSE LET events == r.val.v["transcriptEvents"]
             hits == {j \in 1..Len(events) : events[j].eventType.displayName = CARE_PLAN}
         IN  IF hits = {}
               THEN K_Raise(HTTPException(404, "Care plan event not found.", {}), l)
             ELSE K_Goto("sn_cp_update",
                    [l EXCEPT !.care_plan_event =
                        events[CHOOSE j \in hits : \A h \in hits : j <= h]])

\* update_care_plan_notes, line 788, and line 1065 on: after the update
AfterCarePlanUpdate(request, l, r) ==
    IF ~r.ok THEN K_Raise(r.exc, l) ELSE ToSection(request, l, 8)

create_soap_notes(p) ==
    \E data \in PatientTranscriptRequests :
        Enter(p, "create_soap_notes", data, data,
              ToParticipant(data.patientNameOrParticipantGuid, WithHeaders, "sn_patient",
                  ToSoapFacility(data,
                      [WithHeaders EXCEPT !.participant_guid =
                          data.patientNameOrParticipantGuid])))

SN_SearchPatient(p) ==
    /\ pc[p] = "sn_patient"
    /\ \E response \in Responses(PatientSearchBodies) :
        LET r == MakeRequest(response)
        IN  Do(p, ParticipantSearchCall(req[p].patientNameOrParticipantGuid,
                                        loc[p].headers),
               r, AfterSoapPatient(req[p], loc[p], r))

SN_Facility(p) ==
    /\ pc[p] = "sn_facility"
    /\ \E response \in Responses(FacilityBodies) :
        LET r == MakeRequest(response)
        IN  Do(p, Call("facility", "GET", <<>>, loc[p].headers),
               r, AfterSoapFacility(req[p], loc[p], r))

SN_EncounterTypes(p) ==
    /\ pc[p] = "sn_encounter"
    /\ \E response \in Responses(EncounterTypeBodies) :
        LET r == MakeRequest(response)
        IN  Do(p, Call("encounter_event_type", "GET", <<>>, loc[p].headers),
               r, AfterEncounterTypes(req[p], loc[p], r))

SN_CreateTranscript(p) ==
    /\ pc[p] = "sn_create_transcript"
    /\ \E response \in Responses(CreateTranscriptBodies) :
        LET r == MakeRequest(response)
        IN  Do(p, Call("create_transcripts", "POST",
                       [participantGuid |-> loc[p].participant_guid,
                        encounterTypeEncounterEventTypeGuid |-> loc[p].encounter_guid,
                        facilityGuid |-> loc[p].facility_guid],
                       loc[p].headers),
               r, AfterCreateTranscript(req[p], loc[p], r))

SN_HealthConcernList(p) ==
    /\ pc[p] = "sn_hc_list"
    /\ \E response \in Responses(HealthConcernBodies) :
        LET r == MakeRequest(response)
        IN  Do(p, Call("health_concerns", "GET",
                       [patientPracticeGuid |-> loc[p].participant_guid],
                       loc[p].headers),
               r, AfterHealthConcernList(req[p], loc[p], r))

SN_HealthConcernWrite(p) ==
    /\ pc[p] = "sn_hc_write"
    /\ \E response \in Responses(WriteBodies) :
        LET r == MakeRequest(response)
        IN  Do(p, Call("health_concern", loc[p].health_concern.method,
                       [patientPracticeGuid |-> loc[p].participant_guid,
                        healthConcernNote |-> req[p].healthConcernNote,
                        patientHealthConcernGuid |->
                            loc[p].health_concern.patientHealthConcernGuid],
                       loc[p].headers),
               r, AfterHealthConcernWrite(req[p], loc[p], r))

SN_Patch(p) ==
    /\ pc[p] = "sn_patch"
    /\ \E response \in Responses(WriteBodies) :
        LET r == MakeRequest(response)
        IN  Do(p, Call("update_transcript", "PATCH",
                       [patientPracticeGuid |-> loc[p].participant_guid,
                        transcriptGuid |-> loc[p].transcript_guid,
                        field |-> FieldNames[loc[p].i],
                        value |-> FieldValue(req[p], loc[p].i)],
                       loc[p].headers),
               r, AfterPatch(req[p], loc[p], r))

SN_CarePlanEvents(p) ==
    /\ pc[p] = "sn_cp_events"
    /\ \E response \in Responses(TranscriptEventBodies) :
        LET r == MakeRequest(response)
        IN  Do(p, Call("transcript_events", "GET",
                       [patientPracticeGuid |-> loc[p].participant_guid,
                        transcriptGuid |-> loc[p].transcript_guid],
                       loc[p].headers),
               r, AfterCarePlanEvents(req[p], loc[p], r))

SN_CarePlanUpdate(p) ==
    /\ pc[p] = "sn_cp_update"
    /\ \E response \in Responses(WriteBodies) :
        LET r == MakeRequest(response)
        IN  Do(p, Call("update_care_plan", "PUT",
                       [patientPracticeGuid |-> loc[p].participant_guid,
                        transcriptEventGuid |->
                            loc[p].care_plan_event.transcriptEventGuid,
                        transcriptGuid |-> loc[p].transcript_guid,
                        comments |-> RICH_OPEN \o req[p].carePlanNotes \o RICH_CLOSE],
                       loc[p].headers),
               r, AfterCarePlanUpdate(req[p], loc[p], r))

---------------------------------------------------------------------------
Next ==
    \E p \in Procs :
        \/ create_patient(p)
        \/ CP_PostalCode(p)
        \/ CP_CreatePatient(p)
        \/ create_appointment(p)
        \/ CA_AppointmentTypes(p)
        \/ CA_SearchPatient(p)
        \/ CA_Provider(p)
        \/ CA_Facility(p)
        \/ CA_Conflicts(p)
        \/ CA_CreateAppointment(p)
        \/ upload_document(p)
        \/ UD_SearchPatient(p)
        \/ UD_Upload(p)
        \/ UD_Metadata(p)
        \/ get_combined_events(p)
        \/ CE_Facility(p)
        \/ CE_Providers(p)
        \/ CE_CombinedEvents(p)
        \/ update_appointment_details(p)
        \/ UA_Update(p)
        \/ get_encounters(p)
        \/ GE_SearchPatient(p)
        \/ GE_Summaries(p)
        \/ create_soap_notes(p)
        \/ SN_SearchPatient(p)
        \/ SN_Facility(p)
        \/ SN_EncounterTypes(p)
        \/ SN_CreateTranscript(p)
        \/ SN_HealthConcernList(p)
        \/ SN_HealthConcernWrite(p)
        \/ SN_Patch(p)
        \/ SN_CarePlanEvents(p)
        \/ SN_CarePlanUpdate(p)
        \/ PM_Provider(p)
        \/ PM_DrugSearch(p)
        \/ PM_Screen(p)
        \/ PM_AddMedication(p)
        \/ PM_Associate(p)

Spec == Init /\ [][Next]_vars

---------------------------------------------------------------------------
(* _handle_response on its own: every status, with and without a body that
   parses *)

\* the HTTP status codes a response can have
MinStatus == 100
MaxStatus == 599

\* what response.json() gives when the body parses: an object with and
\* without "error", the empty object, an array, null
ParsedBodies ==
    { RemoteError,
      Dict([message |-> <<"n", "o">>]),
      Dict(<<>>),
      List(<<>>),
      PyNone }

\* the responses aiohttp can hand to _handle_response
HandledResponses ==
    { HttpResponse(status, TRUE, json) :
        status \in MinStatus..MaxStatus, json \in ParsedBodies }
    \cup { HttpResponse(status, FALSE, PyNone) : status \in MinStatus..MaxStatus }

\* a response has arrived for each pending _handle_response
InitHandleResponse ==
    /\ adapter = [user_agent |-> <<"U", "A">>,
                  network_requester |-> None,
                  url |-> <<"p", "f">>,
                  cookies |-> <<"c", "k">>,
                  bearer_auth |-> <<"j", "w", "t">>]
    /\ op = [p \in Procs |-> "_handle_response"]
    /\ pc = [p \in Procs |-> "hr_response"]
    /\ given = [p \in Procs |-> <<>>]
    /\ req \in [Procs -> HandledResponses]
    /\ loc = [p \in Procs |-> InitLoc]
    /\ calls = [p \in Procs |-> <<>>]
    /\ outcome = [p \in Procs |-> NoOutcome]

\* _handle_response(response), lines 75-122: what it returns is
\* loc[p].response.val, what it raises is outcome[p]
handle_response(p) ==
    /\ pc[p] = "hr_response"
    /\ LET r == HandleResponse(req[p])
       IN  /\ loc' = [loc EXCEPT ![p].response = r]
           /\ outcome' = [outcome EXCEPT ![p] = IF r.ok THEN NoOutcome ELSE r.exc]
    /\ pc' = [pc EXCEPT ![p] = "done"]
    /\ UNCHANGED <<adapter, op, given, req, calls>>

NextHandleResponse == \E p \in Procs : handle_response(p)

SpecHandleResponse == InitHandleResponse /\ [][NextHandleResponse]_vars

---------------------------------------------------------------------------
(* Two concurrent create_appointment invocations for one provider and
   facility and overlapping slots, and a remote scheduler that reports a
   conflict for the appointments it has created *)

RaceProcs == {1, 2}

\* requests for the default provider and facility, 10:00:00 and 10:00:30,
\* thirty minutes each
RaceAppointmentData ==
    {data \in AppointmentData :
        /\ data.facilityName = None
        /\ data.lastModifiedByProvider = None
        /\ data.appointmentType = WELLNESS_EXAM
        /\ data.schedulerEventParticipants = <<JANE>>
        /\ data.endAtDateTimeUtc = NoneDT}

\* the minute of the day of a formatted datetime
MinuteOfDay(t) == t.hour * 60 + t.minute

\* the appointments the remote scheduler has created: the payloads of the
\* create-appointment calls it has answered with a 2xx
RemoteAppointments ==
    { calls[q][Len(calls[q])].arg :
        q \in {q \in RaceProcs :
                 /\ Len(calls[q]) > 0
                 /\ calls[q][Len(calls[q])].ep = "create_appointment"
                 /\ loc[q].response.ok} }

\* the remote scheduler's conflictsExist for a conflict query: an appointment
\* it has created has the provider and the facility and overlaps the slot
RemoteConflict(params) ==
    \E a \in RemoteAppointments :
        /\ a.lastModifiedByProviderGuid = params.providerGuid
        /\ a.schedulerEventParticipants[2].participantGuid = params.facilityGuid
        /\ MinuteOfDay(a.startAtDateTimeUtc) < MinuteOfDay(params.endDateTimeFlt)
        /\ MinuteOfDay(params.startDateTimeFlt) < MinuteOfDay(a.endAtDateTimeUtc)

InitRace ==
    /\ adapter = [user_agent |-> <<"U", "A">>,
                  network_requester |-> None,
                  url |-> <<"p", "f">>,
                  cookies |-> <<"c", "k">>,
                  bearer_auth |-> <<"j", "w", "t">>]
    /\ op = [p \in RaceProcs |-> "idle"]
    /\ pc = [p \in RaceProcs |-> "idle"]
    /\ given = [p \in RaceProcs |-> <<>>]
    /\ req = [p \in RaceProcs |-> <<>>]
    /\ loc = [p \in RaceProcs |-> InitLoc]
    /\ calls = [p \in RaceProcs |-> <<>>]
    /\ outcome = [p \in RaceProcs |-> NoOutcome]

\* create_appointment is entered with one of the overlapping requests
RaceEnter(p) ==
    /\ create_appointment(p)
    /\ given'[p] \in RaceAppointmentData

\* check_for_conflicts, lines 246-278, answered by the remote scheduler from
\* the appointments it has created by then
RaceConflicts(p) ==
    /\ CA_Conflicts(p)
    /\ loc'[p].response
          = Ok(Dict([conflictsExist |->
                        RemoteConflict(calls'[p][Len(calls'[p])].arg)]))

\* the awaits of the two invocations interleave on the one event loop
NextRace ==
    \E p \in RaceProcs :
        \/ RaceEnter(p)
        \/ CA_AppointmentTypes(p)
        \/ CA_SearchPatient(p)
        \/ RaceConflicts(p)
        \/ CA_CreateAppointment(p)

SpecRace == InitRace /\ [][NextRace]_vars

---------------------------------------------------------------------------
(* Concurrent invocations on one instance, against a remote system whose
   answer to a call depends on the call alone.  Invocation 3 runs first and
   alone; invocations 1 and 2 then run with their awaits interleaved. *)

ConcurrentProcs == {1, 2, 3}

\* the invocation that runs alone
RunsAlone(p) == p = 3

\* appointment requests at 10:00 for thirty minutes, with and without a
\* facility name and a provider name
ConcurrentAppointmentData ==
    {data \in AppointmentData :
        /\ data.facilityName \in {None, FACILITY_NAME}
        /\ data.lastModifiedByProvider \in {None, PROVIDER_NAME}
        /\ data.schedulerEventParticipants = <<JANE>>
        /\ data.startAtDateTimeUtc = 36000
        /\ data.endAtDateTimeUtc = NoneDT}

\* the remote system: it knows the patient Jane, no patient Ann, fails on any
\* other patient search, and has provider "Dr A" booked in facility "Main"
RemoteAnswer(c) ==
    CASE c.ep = "appointment_types" ->
            OkResponse(CHOOSE b \in AppointmentTypeBodies : b.v # <<>>)
      [] c.ep = "search_patient" ->
            IF c.arg.firstName = <<"J", "a", "n", "e">>
              THEN OkResponse(Dict([patients |-> <<[patientPracticeGuid |-> PATIENT_1]>>]))
            ELSE IF c.arg.firstName = <<"A", "n", "n">>
              THEN OkResponse(Dict([patients |-> <<>>]))
            ELSE HttpResponse(500, TRUE, RemoteError)
      [] c.ep = "provider" -> OkResponse(CHOOSE b \in ProviderBodies : b.v # <<>>)
      [] c.ep = "facility" -> OkResponse(CHOOSE b \in FacilityBodies : b.v # <<>>)
      [] c.ep = "conflicts" ->
            OkResponse(Dict([conflictsExist |->
                                /\ c.arg.providerGuid = <<"V", "1">>
                                /\ c.arg.facilityGuid = <<"F", "1">>]))
      [] c.ep = "create_appointment" ->
            OkResponse(Dict([schedulerEventGuid |-> <<"S", "1">>]))
      [] c.ep = "transcript_summaries" ->
            OkResponse(Dict([transcripts |-> <<>>]))

\* the call invocation p issues in this step is answered by the remote system
Answered(p) ==
    loc'[p].response = MakeRequest(RemoteAnswer(calls'[p][Len(calls'[p])]))

\* invocation 3 runs while the others have not started; the others run, in
\* any interleaving, once it has ended
Scheduled(p) ==
    IF RunsAlone(p)
    THEN \A q \in ConcurrentProcs \ {p} : pc[q] = "idle"
    ELSE \E q \in ConcurrentProcs : RunsAlone(q) /\ pc[q] = "done"

InitConcurrent ==
    /\ adapter = [user_agent |-> <<"U", "A">>,
                  network_requester |-> None,
                  url |-> <<"p", "f">>,
                  cookies |-> <<"c", "k">>,
                  bearer_auth |-> <<"j", "w", "t">>]
    /\ op = [p \in ConcurrentProcs |-> "idle"]
    /\ pc = [p \in ConcurrentProcs |-> "idle"]
    /\ given = [p \in ConcurrentProcs |-> <<>>]
    /\ req = [p \in ConcurrentProcs |-> <<>>]
    /\ loc = [p \in ConcurrentProcs |-> InitLoc]
    /\ calls = [p \in ConcurrentProcs |-> <<>>]
    /\ outcome = [p \in ConcurrentProcs |-> NoOutcome]

\* create_appointment and get_encounters, on the one event loop
NextConcurrent ==
    \E p \in ConcurrentProcs :
        \/ Scheduled(p) /\ create_appointment(p)
                        /\ given'[p] \in ConcurrentAppointmentData
        \/ Scheduled(p) /\ CA_AppointmentTypes(p) /\ Answered(p)
        \/ Scheduled(p) /\ CA_SearchPatient(p) /\ Answered(p)
        \/ Scheduled(p) /\ CA_Provider(p) /\ Answered(p)
        \/ Scheduled(p) /\ CA_Facility(p) /\ Answered(p)
        \/ Scheduled(p) /\ CA_Conflicts(p) /\ Answered(p)
        \/ Scheduled(p) /\ CA_CreateAppointment(p) /\ Answered(p)
        \/ Scheduled(p) /\ get_encounters(p)
                        /\ given'[p] \in {JANE_DOE, ANN_LEE_ROY, CHER, GuidOf("a")}
        \/ Scheduled(p) /\ GE_SearchPatient(p) /\ Answered(p)
        \/ Scheduled(p) /\ GE_Summaries(p) /\ Answered(p)

SpecConcurrent == InitConcurrent /\ [][NextConcurrent]_vars

---------------------------------------------------------------------------
(* Two successive invocations on one instance: the second starts when the
   first has ended, and the remote system may answer it differently *)

\* an appointment request that names the facility and the provider
SuccessiveAppointmentData ==
    {data \in AppointmentData :
        /\ data.facilityName = FACILITY_NAME
        /\ data.lastModifiedByProvider = PROVIDER_NAME
        /\ data.appointmentType = WELLNESS_EXAM
        /\ data.schedulerEventParticipants = <<JANE>>
        /\ data.startAtDateTimeUtc = 36000
        /\ data.endAtDateTimeUtc = NoneDT}

\* a transcript request that names the patient, the facility and the encounter
\* type, and one that names the provider and a drug
SuccessiveTranscriptData ==
    {data \in PatientTranscriptRequests :
        \/ /\ data \in ResolutionData
           /\ data.patientNameOrParticipantGuid = JANE_DOE
           /\ data.transcriptGuid = None
           /\ data.facilityNameOrGuid = FACILITY_NAME
           /\ data.eventDisplayName = OFFICE_VISIT
        \/ /\ data \in MedicationData
           /\ data.medication = <<MED_A>>
           /\ data.providerNameOrGuid = PROVIDER_NAME}

\* invocation p runs when the invocations before it have ended
InTurn(p) == \A q \in RaceProcs : q < p => pc[q] = "done"

NextSuccessive ==
    \E p \in RaceProcs :
        \/ InTurn(p) /\ create_appointment(p) /\ given'[p] \in SuccessiveAppointmentData
        \/ InTurn(p) /\ CA_AppointmentTypes(p)
        \/ InTurn(p) /\ CA_SearchPatient(p)
        \/ InTurn(p) /\ CA_Provider(p)
        \/ InTurn(p) /\ CA_Facility(p)
        \/ InTurn(p) /\ CA_Conflicts(p)
        \/ InTurn(p) /\ CA_CreateAppointment(p)
        \/ InTurn(p) /\ create_soap_notes(p) /\ given'[p] \in SuccessiveTranscriptData
        \/ InTurn(p) /\ SN_SearchPatient(p)
        \/ InTurn(p) /\ SN_Facility(p)
        \/ InTurn(p) /\ SN_EncounterTypes(p)
        \/ InTurn(p) /\ SN_CreateTranscript(p)
        \/ InTurn(p) /\ SN_Patch(p)
        \/ InTurn(p) /\ PM_Provider(p)
        \/ InTurn(p) /\ PM_DrugSearch(p)
        \/ InTurn(p) /\ PM_Screen(p)
        \/ InTurn(p) /\ PM_AddMedication(p)
        \/ InTurn(p) /\ PM_Associate(p)

SpecSuccessive == InitRace /\ [][NextSuccessive]_vars

---------------------------------------------------------------------------
(* Two invocations of create_patient on one instance, their awaits
   interleaved *)

NextPatients ==
    \E p \in RaceProcs :
        \/ create_patient(p)
        \/ CP_PostalCode(p)
        \/ CP_CreatePatient(p)

SpecPatients == InitRace /\ [][NextPatients]_vars

---------------------------------------------------------------------------
(* What the claims are stated in *)

\* the indices of the calls of invocation p to endpoint ep with method m
CallsTo(p, ep, m) ==
    {i \in 1..Len(calls[p]) : calls[p][i].ep = ep /\ calls[p][i].method = m}

Failed(p) == pc[p] = "done" /\ outcome[p].kind # "JSONResponse"

\* invocation p failed with an HTTPException of this status
FailedWith(p, status_code) ==
    /\ pc[p] = "done"
    /\ outcome[p].kind = "HTTPException"
    /\ outcome[p].status_code = status_code

\* the conflict-check response that invocation p has read reports an overlap
ConflictReported(p) ==
    /\ op[p] = "create_appointment"
    /\ loc[p].data.t = "dict"
    /\ Get(loc[p].data.v, "conflictsExist", FALSE) = TRUE

---------------------------------------------------------------------------
(* create_appointment: C1, C7, C8 *)

\* C1: in create_appointment, once the conflict-check response reports an
\* overlap (conflictsExist true), the invocation has failed with an
\* HTTPException of status 400 (the Conflict error) and has issued no
\* create-appointment POST; being ended, it issues none later.
C1_ConflictAbortsCreate ==
    \A p \in Procs :
        ConflictReported(p) =>
            /\ FailedWith(p, 400)
            /\ CallsTo(p, "create_appointment", "POST") = {}

\* C1's case: a conflict check that reported an overlap, after the lookups
C1_Witness ==
    \E p \in Procs :
        /\ ConflictReported(p)
        /\ CallsTo(p, "conflicts", "GET") # {}
        /\ FailedWith(p, 400)

\* the seconds of an isoformat() string
IsoSeconds(iso) == iso.hour * 3600 + iso.minute * 60 + iso.second

\* C7 (as claimed): every AppointmentRequest the schema accepts has its
\* resolved endAtDateTimeUtc >= startAtDateTimeUtc, and so has every
\* conflict-check call and every create-appointment payload.
C7_EndNotBeforeStart ==
    \A p \in Procs :
        op[p] = "create_appointment" =>
            /\ req[p].endAtDateTimeUtc >= req[p].startAtDateTimeUtc
            /\ \A i \in CallsTo(p, "create_appointment", "POST") :
                  IsoSeconds(calls[p][i].arg.endAtDateTimeUtc)
                      >= IsoSeconds(calls[p][i].arg.startAtDateTimeUtc)

\* the end an AppointmentRequest built from given[p] is to have: thirty
\* minutes (1800 s) after the start when none was given, else the one given
ExpectedEnd(p) ==
    IF given[p].endAtDateTimeUtc = NoneDT
    THEN given[p].startAtDateTimeUtc + 1800
    ELSE given[p].endAtDateTimeUtc

\* C8: an AppointmentRequest built without an end time has
\* endAtDateTimeUtc = startAtDateTimeUtc + 30 minutes, one built with an end
\* time keeps it; and that end is the one create_appointment sends, as the
\* conflict check's endDateTimeFlt (in that call's minute format) and as the
\* create-appointment payload's endAtDateTimeUtc and endAtDateTimeFlt.
C8_DefaultEndIsStartPlus30 ==
    \A p \in Procs :
        op[p] = "create_appointment" =>
            /\ req[p].endAtDateTimeUtc = ExpectedEnd(p)
            /\ req[p].startAtDateTimeUtc = given[p].startAtDateTimeUtc
            /\ \A i \in CallsTo(p, "conflicts", "GET") :
                  calls[p][i].arg.endDateTimeFlt = StrfMinute(ExpectedEnd(p))
            /\ \A i \in CallsTo(p, "create_appointment", "POST") :
                  /\ calls[p][i].arg.endAtDateTimeUtc = IsoFormat(ExpectedEnd(p))
                  /\ calls[p][i].arg.endAtDateTimeFlt = IsoFormat(ExpectedEnd(p))

\* C8's case: a request built without an end time whose appointment was
\* created, after its conflict check
C8_Witness ==
    \E p \in Procs :
        /\ op[p] = "create_appointment"
        /\ given[p].endAtDateTimeUtc = NoneDT
        /\ CallsTo(p, "conflicts", "GET") # {}
        /\ CallsTo(p, "create_appointment", "POST") # {}
        /\ outcome[p].kind = "JSONResponse"

---------------------------------------------------------------------------
(* process_medications: C2, C3 *)

\* the last call of invocation p
LastCall(p) == calls[p][Len(calls[p])]

\* the interaction screen that invocation p read last, that of medication
\* loc[p].i, has an alert in one of its three lists
Alerted(p) ==
    /\ op[p] = "create_soap_notes"
    /\ loc[p].interaction_data.t = "dict"
    /\ \E key \in {"drugInteractionAlerts", "drugAllergyAlerts", "drugAlertErrors"} :
          Get(loc[p].interaction_data.v, key, <<>>) # <<>>

\* C2: in process_medications, once the interaction screen of medication i
\* has returned a non-empty drugInteractionAlerts, drugAllergyAlerts or
\* drugAlertErrors, the invocation has ended with that screen as its last
\* call: the add-medication and association calls are those of medications
\* 1..i-1 only, and the drug searches and screens those of medications 1..i.
C2_AlertStopsMedications ==
    \A p \in Procs :
        Alerted(p) =>
            /\ pc[p] = "done"
            /\ LastCall(p).ep = "drug_interactions"
            /\ Cardinality(CallsTo(p, "search_drug", "GET")) = loc[p].i
            /\ Cardinality(CallsTo(p, "drug_interactions", "POST")) = loc[p].i
            /\ Cardinality(CallsTo(p, "add_medication", "POST")) = loc[p].i - 1
            /\ Cardinality(CallsTo(p, "add_transcript_medication", "POST"))
                  = loc[p].i - 1

\* C2's case: an alert for the first of several medications
C2_Witness ==
    \E p \in Procs :
        /\ Alerted(p)
        /\ loc[p].i = 1
        /\ Len(req[p].medication) > 1
        /\ pc[p] = "done"

\* C3 (as claimed): whenever the interaction screen has an alert in one of
\* its three lists, whichever of the three keys the response has,
\* process_medications fails with an HTTPException of status 400 whose
\* detail carries the alert lists as the response has them.
C3_SafetyBlockCarriesAlerts ==
    \A p \in Procs :
        Alerted(p) =>
            /\ FailedWith(p, 400)
            /\ outcome[p].detail.t = "dict"
            /\ \A key \in DOMAIN loc[p].interaction_data.v :
                  key \in {"drugInteractionAlerts", "drugAllergyAlerts",
                           "drugAlertErrors"}
                    => outcome[p].detail.v.alerts[key] = loc[p].interaction_data.v[key]

---------------------------------------------------------------------------
(* Name-to-identifier resolution: C4, C5, C6 *)

\* the last call of invocation p went to ep and _make_request returned a body
Read(p, ep) ==
    /\ Len(calls[p]) > 0
    /\ LastCall(p).ep = ep
    /\ loc[p].response.ok

\* the body that _make_request returned last
Body(p) == loc[p].response.val

\* body is a list none of whose items has value under key
NoItem(body, key, value) ==
    /\ body.t = "list"
    /\ \A j \in 1..Len(body.v) : body.v[j][key] # value

\* The collection fetched last has no match for what the request names:
NoAppointmentType(p) ==
    /\ Read(p, "appointment_types")
    /\ NoItem(Body(p), "name", req[p].appointmentType)

NoPatient(p) ==
    /\ Read(p, "search_patient")
    /\ Body(p).t = "dict"
    /\ "patients" \in DOMAIN Body(p).v
    /\ Body(p).v["patients"] = <<>>

NoProvider(p) ==
    /\ op[p] \in {"create_appointment", "create_soap_notes"}
    /\ Read(p, "provider")
    /\ NoItem(Body(p), "providerName",
              IF op[p] = "create_appointment" THEN req[p].lastModifiedByProvider
              ELSE req[p].providerNameOrGuid)

NoFacility(p) ==
    /\ Read(p, "facility")
    /\ NoItem(Body(p), "name",
              IF op[p] = "create_soap_notes" THEN req[p].facilityNameOrGuid
              ELSE req[p].facilityName)

NoEncounterType(p) ==
    /\ Read(p, "encounter_event_type")
    /\ Body(p).t = "dict"
    /\ NoItem(List(Get(Body(p).v, "events", <<>>)), "displayName",
              req[p].eventDisplayName)

NoDrug(p) ==
    /\ Read(p, "search_drug")
    /\ Body(p).t = "list"
    /\ \A j \in 1..Len(Body(p).v) :
          /\ Lower(Body(p).v[j].drugName)
                # Lower(req[p].medication[loc[p].i].drugNameOrNdc)
          /\ Body(p).v[j].ndc # req[p].medication[loc[p].i].drugNameOrNdc

NoCarePlanEvent(p) ==
    /\ Read(p, "transcript_events")
    /\ Body(p).t = "dict"
    /\ "transcriptEvents" \in DOMAIN Body(p).v
    /\ \A j \in 1..Len(Body(p).v["transcriptEvents"]) :
          Body(p).v["transcriptEvents"][j].eventType.displayName
              # <<"C", "a", "r", "e", " ", "p", "l", "a", "n">>

\* the encounter type comes to be the fixed default and the transcript is
\* created next
FallsBackToDefault(p) ==
    /\ pc[p] = "sn_create_transcript"
    /\ outcome[p] = NoOutcome
    /\ loc[p].encounter_guid
          = << "9", "3", "8", "1", "c", "f", "b", "f", "-", "3", "7", "3", "b",
               "-", "4", "1", "8", "e", "-", "8", "1", "2", "c", "-", "e", "4",
               "4", "b", "9", "7", "8", "3", "5", "b", "e", "4" >>

\* C4 (as claimed): whenever the collection fetched for a name-to-identifier
\* resolution (appointment type, patient, provider, facility, encounter type,
\* drug, care-plan event) has no match, the invocation has failed with an
\* HTTPException of status 404, that fetch being its last call.
C4_ZeroMatchesIsNotFound ==
    \A p \in Procs :
        (\/ NoAppointmentType(p) \/ NoPatient(p) \/ NoProvider(p) \/ NoFacility(p)
         \/ NoEncounterType(p) \/ NoDrug(p) \/ NoCarePlanEvent(p))
            => FailedWith(p, 404)

\* C4 (amended): a fetched collection without a match ends the invocation
\* with an HTTPException of status 404, that fetch being its last call, for
\* the appointment type, the provider, the facility, the drug, the care-plan
\* event, and the patient of every operation but upload_document; in
\* upload_document the invocation ends there as well, with a TypeError; for
\* the encounter type the invocation does not end: the type is the default.
C4_ZeroMatchesEndsOrFallsBack ==
    \A p \in Procs :
        /\ (\/ NoAppointmentType(p) \/ NoProvider(p) \/ NoFacility(p)
            \/ NoDrug(p) \/ NoCarePlanEvent(p)
            \/ (NoPatient(p) /\ op[p] # "upload_document"))
               => FailedWith(p, 404)
        /\ (NoPatient(p) /\ op[p] = "upload_document")
               => (pc[p] = "done" /\ outcome[p].kind = "TypeError")
        /\ NoEncounterType(p) => FallsBackToDefault(p)

\* C4's case: create_soap_notes found no facility of the name it was given
C4_Witness ==
    \E p \in Procs :
        /\ op[p] = "create_soap_notes"
        /\ NoFacility(p)
        /\ FailedWith(p, 404)

\* C5: on the create path of create_soap_notes, when the encounter-type
\* list has no event whose displayName is the request's eventDisplayName
\* (None included), the invocation has not failed and creates the
\* transcript next, with the fixed default encounter type; every
\* create-transcript call carries the encounter type so resolved.
C5_NoEncounterTypeFallsBack ==
    \A p \in Procs :
        op[p] = "create_soap_notes" =>
            /\ (NoEncounterType(p) /\ ~Truthy(req[p].transcriptGuid))
                  => FallsBackToDefault(p)
            /\ \A i \in CallsTo(p, "create_transcripts", "POST") :
                  /\ ~Truthy(req[p].transcriptGuid)
                  /\ i > 1
                  /\ calls[p][i - 1].ep = "encounter_event_type"
                  /\ calls[p][i].arg.encounterTypeEncounterEventTypeGuid
                        = loc[p].encounter_guid

\* C5's case: a transcript created with the default encounter type for an
\* eventDisplayName that no encounter-type list has
C5_Witness ==
    \E p \in Procs :
        /\ op[p] = "create_soap_notes"
        /\ req[p].eventDisplayName = <<"L", "e", "t", "t", "e", "r">>
        /\ \E i \in CallsTo(p, "create_transcripts", "POST") :
              calls[p][i].arg.encounterTypeEncounterEventTypeGuid
                  = DEFAULT_ENCOUNTER_GUID
        /\ outcome[p].kind = "JSONResponse"

\* value has the shape of an identifier: 36 characters, four of them '-'
GuidShaped(value) ==
    /\ Len(value) = 36
    /\ Cardinality({j \in 1..Len(value) : value[j] = "-"}) = 4

\* invocation p has searched or listed nothing at ep and every call of it
\* that carries one of the keys carries value under it
UsedVerbatim(p, ep, keys, value) ==
    /\ \A i \in 1..Len(calls[p]) : calls[p][i].ep # ep
    /\ \A i \in 1..Len(calls[p]) :
          \A key \in keys \cap DOMAIN calls[p][i].arg :
              calls[p][i].arg[key] = value

\* C6 where is_guid is consulted: in get_encounters and create_soap_notes a
\* patient value shaped like an identifier is not searched for and is the
\* patient of every call; in create_soap_notes a facility value so shaped is
\* not looked up in the facility list and is the facility of the transcript
\* created, and a provider value so shaped is not looked up in the provider
\* list and is the provider of every medication added.
GuidShapedSkipsLookup(p) ==
    /\ (/\ op[p] \in {"get_encounters", "create_soap_notes"}
        /\ GuidShaped(req[p].patientNameOrParticipantGuid))
          => UsedVerbatim(p, "search_patient",
                          {"patientPracticeGuid", "participantGuid"},
                          req[p].patientNameOrParticipantGuid)
    /\ (op[p] = "create_soap_notes" /\ GuidShaped(req[p].facilityNameOrGuid))
          => UsedVerbatim(p, "facility", {"facilityGuid"},
                          req[p].facilityNameOrGuid)
    /\ (op[p] = "create_soap_notes" /\ GuidShaped(req[p].providerNameOrGuid))
          => UsedVerbatim(p, "provider", {"providerGuid"},
                          req[p].providerNameOrGuid)

\* C6 (as claimed): in every operation that resolves a patient, a facility
\* or a provider, a caller-supplied value of 36 characters with exactly four
\* '-' is not searched for or looked up in a list, and is the identifier the
\* later calls carry.
C6_GuidShapedIsNeverLookedUp ==
    \A p \in Procs :
        /\ GuidShapedSkipsLookup(p)
        /\ (op[p] = "create_appointment" /\ GuidShaped(req[p].lastModifiedByProvider))
              => UsedVerbatim(p, "provider",
                              {"providerGuid", "lastModifiedByProviderGuid"},
                              req[p].lastModifiedByProvider)
        /\ (/\ op[p] \in {"create_appointment", "get_combined_events"}
            /\ GuidShaped(req[p].facilityName))
              => UsedVerbatim(p, "facility", {"facilityGuid"}, req[p].facilityName)

\* C6 (amended): the pass-through holds where is_guid is consulted (the
\* patient of get_encounters and create_soap_notes, the facility of
\* create_soap_notes, the provider of process_medications); create_appointment
\* and get_combined_events look every supplied provider and facility up by
\* name, shaped like an identifier or not: their conflict check, their
\* create-appointment call and their combined-events query come after the
\* list call of each value supplied.
C6_GuidShapedSkipsLookupWhereChecked ==
    \A p \in Procs :
        /\ GuidShapedSkipsLookup(p)
        /\ op[p] = "create_appointment" =>
              \A i \in CallsTo(p, "conflicts", "GET")
                          \cup CallsTo(p, "create_appointment", "POST") :
                  /\ Truthy(req[p].lastModifiedByProvider)
                        => \E j \in 1..(i - 1) : calls[p][j].ep = "provider"
                  /\ Truthy(req[p].facilityName)
                        => \E j \in 1..(i - 1) : calls[p][j].ep = "facility"
        /\ op[p] = "get_combined_events" =>
              \A i \in CallsTo(p, "combined_event", "PUT") :
                  Truthy(req[p].facilityName)
                      => \E j \in 1..(i - 1) : calls[p][j].ep = "facility"

\* C6's case: a transcript created and written to for a patient and a
\* facility both given as identifiers
C6_Witness ==
    \E p \in Procs :
        /\ op[p] = "create_soap_notes"
        /\ GuidShaped(req[p].patientNameOrParticipantGuid)
        /\ GuidShaped(req[p].facilityNameOrGuid)
        /\ CallsTo(p, "create_transcripts", "POST") # {}
        /\ CallsTo(p, "update_transcript", "PATCH") # {}
        /\ outcome[p].kind = "JSONResponse"

---------------------------------------------------------------------------
(* upload_document: C9, C10 *)

\* the patient search of upload_document, its only call so far, returned
\* this many patients
PatientsFound(p) ==
    IF /\ op[p] = "upload_document"
       /\ Len(calls[p]) = 1
       /\ Read(p, "search_patient")
       /\ Body(p).t = "dict"
       /\ "patients" \in DOMAIN Body(p).v
    THEN Len(Body(p).v["patients"])
    ELSE 0 - 1

\* C9 (as claimed): upload_document fails with an HTTPException of status
\* 404, and has issued no upload and no metadata call, when the patient
\* search returns no patient; when it returns patients, the identifier of the
\* first is the one every metadata call carries.
C9_NoPatientIsNotFound ==
    \A p \in Procs :
        op[p] = "upload_document" =>
            /\ PatientsFound(p) = 0 =>
                  /\ FailedWith(p, 404)
                  /\ CallsTo(p, "upload_document", "POST") = {}
                  /\ CallsTo(p, "update_document_meta", "PUT") = {}
            /\ PatientsFound(p) > 0 =>
                  loc[p].patient_id = Body(p).v["patients"][1].patientPracticeGuid
            /\ \A i \in CallsTo(p, "update_document_meta", "PUT") :
                  calls[p][i].arg.patientPracticeGuid = loc[p].patient_id

\* C10: after the patient search, the calls of upload_document are the
\* upload of file 1, the metadata call of file 1, the upload of file 2, and
\* so on in the order of request.files, and nothing else.  When
\* _make_request raises, the invocation ends with that exception; when the
\* invocation has failed at file N, files 1..N-1 have both their calls done
\* and their metadata responses collected, file N has its upload or both
\* calls issued, no file after N has a call, and no list is returned.  When
\* the list is returned, every file has had both calls.
C10_FilesInOrderNoRollback ==
    \A p \in Procs :
        op[p] = "upload_document" =>
            /\ \A j \in 1..Len(calls[p]) :
                  IF j = 1 THEN calls[p][j].ep = "search_patient"
                  ELSE IF j % 2 = 0
                    THEN /\ calls[p][j].ep = "upload_document"
                         /\ calls[p][j].method = "POST"
                         /\ calls[p][j].arg.documents = req[p].files[j \div 2]
                  ELSE /\ calls[p][j].ep = "update_document_meta"
                       /\ calls[p][j].method = "PUT"
            /\ (Len(calls[p]) > 0 /\ ~loc[p].response.ok) =>
                  (pc[p] = "done" /\ outcome[p] = loc[p].response.exc)
            /\ (Failed(p) /\ Len(calls[p]) > 1) =>
                  /\ loc[p].i \in 1..Len(req[p].files)
                  /\ Len(loc[p].uploaded_documents) = loc[p].i - 1
                  /\ Len(calls[p]) \in {2 * loc[p].i, 2 * loc[p].i + 1}
            /\ outcome[p].kind = "JSONResponse" =>
                  /\ Len(calls[p]) = 1 + 2 * Len(req[p].files)
                  /\ outcome[p].detail.v["uploaded_files"] = loc[p].uploaded_documents
                  /\ Len(loc[p].uploaded_documents) = Len(req[p].files)

\* C10's case: the metadata call of the second file failed after the first
\* file had both its calls
C10_Witness ==
    \E p \in Procs :
        /\ op[p] = "upload_document"
        /\ Failed(p)
        /\ ~loc[p].response.ok
        /\ loc[p].i = 2
        /\ Len(calls[p]) = 5

---------------------------------------------------------------------------
(* create_soap_notes: C11, C12, C13 *)

\* the calls of invocation p that name a transcript: the field patches, the
\* care-plan calls, the medication add and association
TranscriptCalls(p) ==
    {i \in 1..Len(calls[p]) :
        calls[p][i].ep \in {"update_transcript", "transcript_events",
                            "update_care_plan", "add_medication",
                            "add_transcript_medication"}}

\* the calls of invocation p that apply a section
SectionCalls(p) ==
    TranscriptCalls(p)
        \cup {i \in 1..Len(calls[p]) :
                calls[p][i].ep \in {"health_concerns", "health_concern",
                                    "search_drug", "drug_interactions"}}

\* C11, in every state: with a transcriptGuid in the request there is no
\* encounter-type list call and no create-transcript call, and every call
\* that names a transcript names the one supplied; without one, there is at
\* most one create-transcript call, exactly one once a section is applied or
\* the operation has returned, it precedes every section call, the
\* identifier it returned is the transcript_guid of the invocation, and
\* every call that names a transcript names that one.
TranscriptCreatedOrGiven(p) ==
    LET creates == CallsTo(p, "create_transcripts", "POST")
    IN  /\ Truthy(req[p].transcriptGuid) =>
              /\ creates = {}
              /\ CallsTo(p, "encounter_event_type", "GET") = {}
              /\ \A i \in TranscriptCalls(p) :
                    calls[p][i].arg.transcriptGuid = req[p].transcriptGuid
        /\ ~Truthy(req[p].transcriptGuid) =>
              /\ Cardinality(creates) <= 1
              /\ (SectionCalls(p) # {} \/ outcome[p].kind = "JSONResponse")
                    => Cardinality(creates) = 1
              /\ \A i \in SectionCalls(p) : \A c \in creates : c < i
              /\ (/\ Len(calls[p]) > 0
                  /\ calls[p][Len(calls[p])].ep = "create_transcripts"
                  /\ loc[p].response.ok
                  /\ loc[p].response.val.t = "dict"
                  /\ "transcript" \in DOMAIN loc[p].response.val.v)
                    => loc[p].transcript_guid
                          = loc[p].response.val.v["transcript"].transcriptGuid
              /\ \A i \in TranscriptCalls(p) :
                    calls[p][i].arg.transcriptGuid = loc[p].transcript_guid

\* C11: create_soap_notes creates a transcript exactly when the request has
\* no transcriptGuid; the section updates go to the transcript supplied, or
\* to the one the single create-transcript call returned, which no later
\* step of the invocation replaces.
C11_CreatesTranscriptIffNoneGiven ==
    /\ [](\A p \in Procs : op[p] = "create_soap_notes" => TranscriptCreatedOrGiven(p))
    /\ [][\A p \in Procs :
            (op[p] = "create_soap_notes" /\ CallsTo(p, "create_transcripts", "POST") # {})
                => loc'[p].transcript_guid = loc[p].transcript_guid]_vars

\* C11's case: a transcript was created, and a field patched and a
\* medication associated on the transcript it returned
C11_Witness ==
    \E p \in Procs :
        /\ op[p] = "create_soap_notes"
        /\ ~Truthy(req[p].transcriptGuid)
        /\ CallsTo(p, "create_transcripts", "POST") # {}
        /\ \E i \in CallsTo(p, "update_transcript", "PATCH") :
              calls[p][i].arg.transcriptGuid = <<"T", "R", "1">>
        /\ \E i \in CallsTo(p, "add_transcript_medication", "POST") :
              calls[p][i].arg.transcriptGuid = <<"T", "R", "1">>
        /\ outcome[p].kind = "JSONResponse"

\* the text of the k-th of the five note sections of a request
SectionText(request, k) ==
    CASE k = 1 -> request.chiefComplaint
      [] k = 2 -> request.subjectiveNote
      [] k = 3 -> request.objectiveNote
      [] k = 4 -> request.assessmentNote
      [] k = 5 -> request.planNote

\* the note sections of a request that are neither absent nor empty
NonBlank(request) == {k \in 1..5 : Truthy(SectionText(request, k))}

\* the transcript field a note section is patched into
SectionField(k) ==
    CASE k = 1 -> "chiefComplaintNote"
      [] k = 2 -> "subjectiveNote"
      [] k = 3 -> "objectiveNote"
      [] k = 4 -> "assessmentNote"
      [] k = 5 -> "planNote"

\* C12: every field patch of create_soap_notes carries the one field of a
\* section that is neither absent nor empty, no section is patched twice,
\* and a run that returns has issued as many patches as the request has such
\* sections: one for chiefComplaintNote alone when only chiefComplaint is set.
C12_OnePatchPerNonBlankSection ==
    \A p \in Procs :
        op[p] = "create_soap_notes" =>
            LET patches == CallsTo(p, "update_transcript", "PATCH")
            IN  /\ \A i \in patches :
                      \E k \in NonBlank(req[p]) : calls[p][i].arg.field = SectionField(k)
                /\ \A i, j \in patches :
                      i # j => calls[p][i].arg.field # calls[p][j].arg.field
                /\ outcome[p].kind = "JSONResponse"
                      => Cardinality(patches) = Cardinality(NonBlank(req[p]))

\* C12's case: an update with chiefComplaint alone returned after one patch,
\* of chiefComplaintNote
C12_Witness ==
    \E p \in Procs :
        /\ op[p] = "create_soap_notes"
        /\ NonBlank(req[p]) = {1}
        /\ outcome[p].kind = "JSONResponse"
        /\ Cardinality(CallsTo(p, "update_transcript", "PATCH")) = 1
        /\ \A i \in CallsTo(p, "update_transcript", "PATCH") :
              calls[p][i].arg.field = "chiefComplaintNote"

\* The section a call of create_soap_notes belongs to: 1 the health concern,
\* 2..6 the chief-complaint, subjective, objective, assessment and plan
\* patches, 7 the care plan, 8 the medications; 0 for the calls that resolve
\* the patient, the facility and the transcript.
SectionOfCall(c) ==
    CASE c.ep \in {"health_concerns", "health_concern"} -> 1
      [] c.ep = "update_transcript" ->
            1 + (CHOOSE k \in 1..5 : SectionField(k) = c.arg.field)
      [] c.ep \in {"transcript_events", "update_care_plan"} -> 7
      [] c.ep \in {"provider", "search_drug", "drug_interactions",
                   "add_medication", "add_transcript_medication"} -> 8
      [] OTHER -> 0

\* whether the request asks for section k
Requested(request, k) ==
    CASE k = 1 -> Truthy(request.healthConcernNote)
      [] k \in 2..6 -> Truthy(SectionText(request, k - 1))
      [] k = 7 -> Truthy(request.carePlanNotes)
      [] k = 8 -> request.medication # <<>>

\* C13: the calls of create_soap_notes come section by section in the order
\* health concern, chief complaint, subjective, objective, assessment, plan,
\* care plan, medications: a call of a section comes after the calls of
\* every earlier section the request asks for and never before a call of an
\* earlier section; a failed call ends the invocation, so that no later
\* section is called; no call deletes anything; a run that returns has called
\* every section asked for.
C13_SectionsInOrderFailFast ==
    \A p \in Procs :
        op[p] = "create_soap_notes" =>
            /\ \A i, j \in 1..Len(calls[p]) :
                  i < j => SectionOfCall(calls[p][i]) <= SectionOfCall(calls[p][j])
            /\ \A i \in 1..Len(calls[p]) :
                  LET s == SectionOfCall(calls[p][i])
                  IN  s > 0 =>
                        /\ Requested(req[p], s)
                        /\ \A k \in 1..(s - 1) :
                              Requested(req[p], k)
                                  => \E j \in 1..(i - 1) : SectionOfCall(calls[p][j]) = k
            /\ \A i \in 1..Len(calls[p]) :
                  calls[p][i].method \in {"GET", "POST", "PUT", "PATCH"}
            /\ (Len(calls[p]) > 0 /\ ~loc[p].response.ok) => pc[p] = "done"
            /\ outcome[p].kind = "JSONResponse" =>
                  \A k \in 1..8 :
                      Requested(req[p], k)
                          => \E j \in 1..Len(calls[p]) : SectionOfCall(calls[p][j]) = k

\* C13's case: the care-plan section failed after the health concern and the
\* five fields were written, and the medications asked for were not touched
C13_Witness ==
    \E p \in Procs :
        /\ op[p] = "create_soap_notes"
        /\ Failed(p)
        /\ Len(calls[p]) > 0
        /\ SectionOfCall(calls[p][Len(calls[p])]) = 7
        /\ Requested(req[p], 1)
        /\ Requested(req[p], 8)
        /\ Cardinality(CallsTo(p, "update_transcript", "PATCH")) = 5
        /\ CallsTo(p, "search_drug", "GET") = {}

---------------------------------------------------------------------------
(* _handle_response: C14, C15, C16 *)

\* _handle_response has classified the response req[p]
Classified(p) == op[p] = "_handle_response" /\ pc[p] = "done"

\* C14 (as claimed): for every response whose body parses, _handle_response
\* returns the parsed body for a status of 200..203, returns None for 204,
\* and for 400..499 raises an HTTPException whose status_code is the remote
\* status and whose detail is the parsed body.
C14_ClassifiesSuccessAndClientError ==
    \A p \in Procs :
        (Classified(p) /\ req[p].parses) =>
            /\ req[p].status \in 200..203 =>
                  (loc[p].response.ok /\ loc[p].response.val = req[p].json)
            /\ req[p].status = 204 =>
                  (loc[p].response.ok /\ loc[p].response.val = PyNone)
            /\ req[p].status \in 400..499 =>
                  /\ outcome[p].kind = "HTTPException"
                  /\ outcome[p].status_code = req[p].status
                  /\ outcome[p].detail = req[p].json

\* the error message a response carries: error.message of a parsed object
\* that has one, else the generic "Unknown error"
OriginalMessage(response) ==
    IF /\ response.parses
       /\ response.json.t = "dict"
       /\ "error" \in DOMAIN response.json.v
       /\ "message" \in DOMAIN response.json.v["error"]
    THEN response.json.v["error"].message
    ELSE "Unknown error"

\* C15 (as claimed): for every status >= 500, _handle_response raises an
\* IntegrationAPIError whose status code is 501, which is not the status the
\* remote system returned, and whose message contains the original message.
C15_ServerErrorIsTranslated ==
    \A p \in Procs :
        (Classified(p) /\ req[p].status >= 500) =>
            /\ outcome[p].kind = "IntegrationAPIError"
            /\ outcome[p].status_code = 501
            /\ outcome[p].status_code # req[p].status
            /\ outcome[p].detail.message[2] = OriginalMessage(req[p])

\* C16 (as claimed): for every response whose body does not parse,
\* _handle_response raises (it returns nothing as a success), and what it
\* raises is no parse exception but an error carrying the remote status: as its
\* status code or as its error code.
C16_UnparseableIsAnError ==
    \A p \in Procs :
        (Classified(p) /\ ~req[p].parses) =>
            /\ ~loc[p].response.ok
            /\ outcome[p].kind \in {"HTTPException", "IntegrationAPIError"}
            /\ \/ outcome[p].status_code = req[p].status
               \/ /\ outcome[p].kind = "IntegrationAPIError"
                  /\ outcome[p].detail.error_code = StrInt(req[p].status)

---------------------------------------------------------------------------
(* Every operation: C17, C18 *)

\* C17 (as claimed): every invocation of a public operation ends with a
\* JSONResponse whose content is no error body, or with one of the
\* classified failures: an HTTPException (client request, not found,
\* conflict, safety block) or an IntegrationAPIError (downstream server,
\* malformed response).
C17_SuccessOrClassifiedFailure ==
    \A p \in Procs :
        pc[p] = "done" =>
            \/ /\ outcome[p].kind = "JSONResponse"
               /\ ~(/\ outcome[p].detail.t = "dict"
                    /\ "error" \in DOMAIN outcome[p].detail.v)
            \/ outcome[p].kind \in {"HTTPException", "IntegrationAPIError"}

\* C18: once _make_request has raised, the invocation has ended and what it
\* raised is the outcome; and once an invocation has an outcome, exception or
\* result, it issues no further call (no retry, no later step) and the outcome
\* stays what it is.
C18_FirstFailureEndsTheInvocation ==
    /\ [](\A p \in Procs :
            (Len(calls[p]) > 0 /\ ~loc[p].response.ok)
                => (pc[p] = "done" /\ outcome[p] = loc[p].response.exc))
    /\ [](\A p \in Procs : outcome[p] # NoOutcome => pc[p] = "done")
    /\ [][\A p \in Procs :
            pc[p] = "done" => (calls'[p] = calls[p] /\ outcome'[p] = outcome[p])]_vars

\* C18's case: create_soap_notes ended with the downstream error of a call
\* that came after three or more others
C18_Witness ==
    \E p \in Procs :
        /\ op[p] = "create_soap_notes"
        /\ Len(calls[p]) > 3
        /\ ~loc[p].response.ok
        /\ outcome[p].kind = "IntegrationAPIError"
        /\ outcome[p].status_code = 501

---------------------------------------------------------------------------
(* create_appointment: C19 *)

\* the endpoints create_appointment calls for a request, in order
AppointmentCallOrder(request) ==
    <<"appointment_types", "search_patient">>
        \o (IF Truthy(request.lastModifiedByProvider) THEN <<"provider">> ELSE <<>>)
        \o (IF Truthy(request.facilityName) THEN <<"facility">> ELSE <<>>)
        \o <<"conflicts", "create_appointment">>

\* C19: the calls of create_appointment are, in order, a prefix of:
\* appointment-type list, patient search, provider list (when a provider is
\* named), facility list (when a facility is named), conflict check,
\* create-appointment; a run that returns has issued them all, so one conflict
\* check, directly before the create call, which is the last call.  The
\* calls before it are GETs and the POST of the patient search, which reads.
\* With no provider named the payload has the default provider, with no
\* facility named the default facility and practice.
C19_AppointmentCallsInOrder ==
    \A p \in Procs :
        op[p] = "create_appointment" =>
            LET n == Len(calls[p])
                order == AppointmentCallOrder(req[p])
            IN  /\ n <= Len(order)
                /\ \A i \in 1..n : calls[p][i].ep = order[i]
                /\ outcome[p].kind = "JSONResponse" => n = Len(order)
                /\ \A i \in 1..n :
                      IF calls[p][i].ep = "create_appointment"
                      THEN calls[p][i].method = "POST"
                      ELSE \/ calls[p][i].method = "GET"
                           \/ (calls[p][i].ep = "search_patient"
                                 /\ calls[p][i].method = "POST")
                /\ \A i \in CallsTo(p, "create_appointment", "POST") :
                      /\ ~Truthy(req[p].lastModifiedByProvider) =>
                            /\ calls[p][i].arg.lastModifiedByProviderGuid
                                  = DEFAULT_PROVIDER_GUID
                            /\ calls[p][i].arg.schedulerEventParticipants[3].participantGuid
                                  = DEFAULT_PROVIDER_GUID
                      /\ ~Truthy(req[p].facilityName) =>
                            /\ calls[p][i].arg.schedulerEventParticipants[2].participantGuid
                                  = DEFAULT_FACILITY_GUID
                            /\ calls[p][i].arg.practiceGuid = DEFAULT_PRACTICE_GUID

\* C19's case: an appointment created with neither provider nor facility
\* named, after four calls
C19_Witness ==
    \E p \in Procs :
        /\ op[p] = "create_appointment"
        /\ ~Truthy(req[p].lastModifiedByProvider)
        /\ ~Truthy(req[p].facilityName)
        /\ outcome[p].kind = "JSONResponse"
        /\ Len(calls[p]) = 4
        /\ calls[p][4].arg.practiceGuid = DEFAULT_PRACTICE_GUID

---------------------------------------------------------------------------
(* Concurrent create_appointment: C20 *)

\* the conflict check of invocation p reported no conflict
CheckedFree(p) ==
    /\ CallsTo(p, "conflicts", "GET") # {}
    /\ loc[p].data = Dict([conflictsExist |-> FALSE])

\* C20: nothing but its own conflict check stands between an invocation and
\* its create call.  Every create-appointment call directly follows the
\* invocation's conflict check, which reported no conflict; and an
\* invocation whose check has passed can issue its create call whatever the
\* other invocation has done since (the adapter holds no lock or lease from
\* check to create, and does not check again).
C20_OnlyItsOwnCheckGuardsCreate ==
    \A p \in RaceProcs :
        /\ \A i \in CallsTo(p, "create_appointment", "POST") :
              /\ i > 1
              /\ calls[p][i - 1].ep = "conflicts"
              /\ CheckedFree(p)
        /\ pc[p] = "ca_create" =>
              (CheckedFree(p) /\ ENABLED CA_CreateAppointment(p))

\* C20's case: both invocations, for the same provider and facility and
\* overlapping slots, had their conflict check report no conflict, and both
\* created their appointment
C20_Witness ==
    /\ \A p \in RaceProcs :
          /\ CheckedFree(p)
          /\ CallsTo(p, "create_appointment", "POST") # {}
          /\ outcome[p].kind = "JSONResponse"
    /\ Cardinality(RemoteAppointments) = 2
    /\ \E a, b \in RemoteAppointments :
          /\ a # b
          /\ a.lastModifiedByProviderGuid = b.lastModifiedByProviderGuid
          /\ a.schedulerEventParticipants[2].participantGuid
                = b.schedulerEventParticipants[2].participantGuid
          /\ MinuteOfDay(a.startAtDateTimeUtc) < MinuteOfDay(b.endAtDateTimeUtc)
          /\ MinuteOfDay(b.startAtDateTimeUtc) < MinuteOfDay(a.endAtDateTimeUtc)

---------------------------------------------------------------------------
(* C21: the credentials on every call *)

\* the instance PracticeFusionIntegration.create(cookies, authorization)
\* returns still has the cookies and the token it was given
CredentialsAsCreated ==
    /\ adapter.cookies # None
    /\ adapter.bearer_auth # None

\* C21: every outbound call of every operation carries a Cookie header and an
\* Authorization header equal to the cookie string and the bearer token the
\* instance was created with, and no step of any operation changes a field of
\* the instance.
C21_EveryCallCarriesTheCredentials ==
    /\ [](/\ CredentialsAsCreated
          /\ \A p \in Procs : \A i \in 1..Len(calls[p]) :
                /\ calls[p][i].headers.Cookie = adapter.cookies
                /\ calls[p][i].headers.Authorization = adapter.bearer_auth)
    /\ [][adapter' = adapter]_vars

\* an appointment was created: the invocation's calls, the conflict check
\* (which sets up its own headers) among them, all carried the credentials
C21_Witness ==
    \E p \in Procs :
        /\ op[p] = "create_appointment"
        /\ outcome[p].kind = "JSONResponse"
        /\ Len(calls[p]) >= 4
        /\ \A i \in 1..Len(calls[p]) :
              /\ calls[p][i].headers.Cookie = adapter.cookies
              /\ calls[p][i].headers.Authorization = adapter.bearer_auth

---------------------------------------------------------------------------
(* C22: concurrent invocations do not affect each other *)

\* invocations p and q run the same operation on equal requests
SameInvocation(p, q) == op[p] = op[q] /\ req[p] = req[q]

\* sequence s is the beginning of sequence t
IsPrefix(s, t) == Len(s) <= Len(t) /\ \A i \in 1..Len(s) : s[i] = t[i]

\* everything of invocation p
Invocation(p) == <<op[p], pc[p], given[p], req[p], loc[p], calls[p], outcome[p]>>

\* C22: no step of an operation writes a field of the instance, and a step of
\* one invocation changes nothing of another; so an invocation whose awaits
\* interleave with another's issues, call for call, the calls (endpoint,
\* method, payload, headers) that the same operation on the same request
\* issues when it runs alone against the same remote answers, and reaches the
\* same outcome.
C22_InterleavedAsAlone ==
    /\ [](\A p, q \in ConcurrentProcs :
            (~RunsAlone(p) /\ RunsAlone(q) /\ op[p] # "idle" /\ SameInvocation(p, q))
            => /\ IsPrefix(calls[p], calls[q])
               /\ pc[p] = "done" =>
                     (calls[p] = calls[q] /\ outcome[p] = outcome[q]))
    /\ [][/\ adapter' = adapter
          /\ \E p \in ConcurrentProcs :
                \A q \in ConcurrentProcs \ {p} : Invocation(q)' = Invocation(q)]_vars

\* invocation 1 is about to create the appointment that invocation 3 created
\* alone, while invocation 2 is between the two calls of get_encounters
C22_Witness ==
    /\ SameInvocation(1, 3)
    /\ outcome[3].kind = "JSONResponse"
    /\ pc[1] = "ca_create"
    /\ IsPrefix(calls[1], calls[3])
    /\ Len(calls[1]) >= 4
    /\ op[2] = "get_encounters"
    /\ pc[2] = "ge_summaries"
    /\ Len(calls[2]) = 1

---------------------------------------------------------------------------
(* C23: identifiers are resolved anew by every invocation *)

\* the last call of invocation p went to ep, was answered, and p goes on
JustAnswered(p, ep) ==
    /\ Len(calls[p]) > 0
    /\ calls[p][Len(calls[p])].ep = ep
    /\ pc[p] # "done"
    /\ loc[p].response.ok

\* the step issues a call of invocation p to ep
NewCall(p, ep) ==
    /\ Len(calls'[p]) = Len(calls[p]) + 1
    /\ calls'[p][Len(calls'[p])].ep = ep

\* item j is the first of items whose key is value
IsFirstWith(items, j, key, value) ==
    /\ j \in 1..Len(items)
    /\ items[j][key] = value
    /\ \A h \in 1..(j - 1) : items[h][key] # value

\* the names invocation p asks to be resolved
FacilityNamed(p) ==
    IF op[p] = "create_appointment" THEN req[p].facilityName
    ELSE req[p].facilityNameOrGuid

ProviderNamed(p) ==
    IF op[p] = "create_appointment" THEN req[p].lastModifiedByProvider
    ELSE req[p].providerNameOrGuid

\* the patient identifier invocation p works with
PatientLocal(p) ==
    IF op[p] = "create_appointment" THEN loc[p].patient_id ELSE loc[p].participant_guid

\* right after a lookup, the identifier of invocation p is the one the
\* response to that lookup gives for the name
FromOwnResponse(p) ==
    LET body == loc[p].response.val
    IN  /\ JustAnswered(p, "search_patient") =>
              PatientLocal(p) = body.v["patients"][1].patientPracticeGuid
        /\ JustAnswered(p, "facility") =>
              \E j \in 1..Len(body.v) :
                  /\ IsFirstWith(body.v, j, "name", FacilityNamed(p))
                  /\ loc[p].facility_guid = body.v[j].facilityGuid
        /\ JustAnswered(p, "provider") =>
              \E j \in 1..Len(body.v) :
                  /\ IsFirstWith(body.v, j, "providerName", ProviderNamed(p))
                  /\ loc[p].provider_guid = body.v[j].providerGuid
        /\ JustAnswered(p, "encounter_event_type") =>
              LET events == Get(body.v, "events", <<>>)
              IN  \/ \E j \in 1..Len(events) :
                        /\ IsFirstWith(events, j, "displayName", req[p].eventDisplayName)
                        /\ loc[p].encounter_guid = events[j].eventTypeGuid
                  \/ /\ \A j \in 1..Len(events) :
                           events[j].displayName # req[p].eventDisplayName
                     /\ loc[p].encounter_guid = DEFAULT_ENCOUNTER_GUID
        /\ JustAnswered(p, "search_drug") =>
              \E j \in 1..Len(body.v) :
                  /\ loc[p].matched_drug = body.v[j]
                  /\ \/ Lower(body.v[j].drugName)
                          = Lower(req[p].medication[loc[p].i].drugNameOrNdc)
                     \/ body.v[j].ndc = req[p].medication[loc[p].i].drugNameOrNdc

\* a call of invocation p that carries resolved identifiers carries the ones
\* p holds, and p has issued the lookups for the names before it
UsesItsOwn(p) ==
    \A i \in 1..Len(calls[p]) :
        LET c == calls[p][i]
            Before(ep) == \E j \in 1..(i - 1) : calls[p][j].ep = ep
        IN  /\ c.ep = "create_appointment" =>
                  /\ c.arg.schedulerEventParticipants[1].participantGuid
                        = loc[p].patient_id
                  /\ c.arg.schedulerEventParticipants[2].participantGuid
                        = loc[p].facility_guid
                  /\ c.arg.schedulerEventParticipants[3].participantGuid
                        = loc[p].provider_guid
                  /\ Before("search_patient")
                  /\ Before("facility")
                  /\ Before("provider")
            /\ c.ep = "create_transcripts" =>
                  /\ c.arg.participantGuid = loc[p].participant_guid
                  /\ c.arg.facilityGuid = loc[p].facility_guid
                  /\ c.arg.encounterTypeEncounterEventTypeGuid = loc[p].encounter_guid
                  /\ Before("search_patient")
                  /\ Before("facility")
                  /\ Before("encounter_event_type")
            /\ c.ep = "add_medication" =>
                  /\ c.arg.providerGuid = loc[p].provider_guid
                  /\ c.arg.drugName = loc[p].matched_drug.drugName
                  /\ Before("provider")
                  /\ Before("search_drug")

\* an identifier of invocation p changes only in the step of p's own lookup
\* for it, or to a fixed default or the value of the request
ChangesByOwnLookup(p) ==
    /\ loc'[p].patient_id # loc[p].patient_id => NewCall(p, "search_patient")
    /\ loc'[p].participant_guid # loc[p].participant_guid =>
          \/ NewCall(p, "search_patient")
          \/ pc[p] = "idle" /\ loc'[p].participant_guid = req'[p].patientNameOrParticipantGuid
    /\ loc'[p].facility_guid # loc[p].facility_guid =>
          \/ NewCall(p, "facility")
          \/ loc'[p].facility_guid = DEFAULT_FACILITY_GUID
    /\ loc'[p].provider_guid # loc[p].provider_guid =>
          \/ NewCall(p, "provider")
          \/ loc'[p].provider_guid = DEFAULT_PROVIDER_GUID
    /\ loc'[p].encounter_guid # loc[p].encounter_guid =>
          NewCall(p, "encounter_event_type")
    /\ loc'[p].matched_drug # loc[p].matched_drug => NewCall(p, "search_drug")

\* C23: a resolved identifier is never reused across invocations: each of two
\* successive invocations on one instance issues its own search or list call
\* for a name (patient, facility, provider, encounter type, drug) and uses the
\* identifier its own response gives, whatever the earlier invocation found.
C23_ResolvesAnewEachInvocation ==
    /\ [](\A p \in RaceProcs : FromOwnResponse(p) /\ UsesItsOwn(p))
    /\ [][\A p \in RaceProcs : ChangesByOwnLookup(p)]_vars

\* two successive invocations on equal requests, between which the patient
\* list changed: the first appointment is for patient P1, the second for P2
C23_Witness ==
    /\ op[1] = "create_appointment"
    /\ op[2] = "create_appointment"
    /\ req[1] = req[2]
    /\ outcome[1].kind = "JSONResponse"
    /\ outcome[2].kind = "JSONResponse"
    /\ calls[1][Len(calls[1])].arg.schedulerEventParticipants[1].participantGuid
          = PATIENT_1
    /\ calls[2][Len(calls[2])].arg.schedulerEventParticipants[1].participantGuid
          = PATIENT_2
    /\ \E i \in 1..Len(calls[2]) : calls[2][i].ep = "search_patient"

---------------------------------------------------------------------------
(* C24: the calls of process_medications *)

\* the four calls of one medication, in the order of lines 833-961
MedicationCycle ==
    <<"search_drug", "drug_interactions", "add_medication", "add_transcript_medication">>

\* the calls of invocation p that process_medications issued for a medication
MedicationCalls(p) ==
    SelectSeq(calls[p], LAMBDA c : \E k \in 1..4 : c.ep = MedicationCycle[k])

\* drug is a match for medication med (lines 839-847)
Matches(drug, med) ==
    \/ Lower(drug.drugName) = Lower(med.drugNameOrNdc)
    \/ drug.ndc = med.drugNameOrNdc

\* the calls for the medications are the last calls of the invocation, and the
\* k-th of them is the next call of the cycle for medication (k-1) \div 4 + 1:
\* the search by that medication's criteria, the screen of a drug that matches
\* it, the add of the drug screened, the association for the same patient
MedicationsInOrder(p) ==
    LET m == MedicationCalls(p)
        first == Len(calls[p]) - Len(m)
    IN  /\ \A k \in 1..Len(m) : calls[p][first + k] = m[k]
        /\ Len(m) <= 4 * Len(req[p].medication)
        /\ \A k \in 1..Len(m) :
              LET med == req[p].medication[((k - 1) \div 4) + 1]
                  c == m[k]
              IN  /\ c.ep = MedicationCycle[((k - 1) % 4) + 1]
                  /\ c.ep = "search_drug" => c.arg.searchCriteria = med.searchCriteria
                  /\ c.ep = "drug_interactions" =>
                        /\ Len(c.arg.drugInputs) = 1
                        /\ Matches(c.arg.drugInputs[1], med)
                  /\ c.ep = "add_medication" =>
                        /\ c.arg.drugName = m[k - 1].arg.drugInputs[1].drugName
                        /\ c.arg.ndc = m[k - 1].arg.drugInputs[1].ndc
                        /\ c.arg.patientPracticeGuid = m[k - 1].arg.patientPracticeGuid
                  /\ c.ep = "add_transcript_medication" =>
                        c.arg.patientPracticeGuid = m[k - 1].arg.patientPracticeGuid

\* no alert category of the answer of a screen holds an alert
NoAlerts(interaction_data) ==
    /\ interaction_data.t = "dict"
    /\ \A key \in {"drugInteractionAlerts", "drugAllergyAlerts", "drugAlertErrors"} :
          Get(interaction_data.v, key, <<>>) = <<>>

\* a medication is added in the step after its screen was answered without
\* an alert, and associated in the step after its add was answered, with the
\* medication identifier of that answer
AddsAfterCleanScreen(p) ==
    /\ NewCall(p, "add_medication") =>
          /\ calls[p][Len(calls[p])].ep = "drug_interactions"
          /\ loc[p].response.ok
          /\ NoAlerts(loc[p].response.val)
    /\ NewCall(p, "add_transcript_medication") =>
          /\ calls[p][Len(calls[p])].ep = "add_medication"
          /\ loc[p].response.ok
          /\ calls'[p][Len(calls'[p])].arg.medicationGuid
                = loc[p].response.val.v["medicationGuid"]

\* C24: process_medications takes the medications in input order and issues,
\* for each, the drug search, the interaction screen, the add-medication call
\* and the association call in that order, all four before any call for the
\* next medication; an add-medication call directly follows the screen of the
\* same matched drug for the same patient, answered with no alert in any of
\* the three categories, and an association call carries the medication
\* identifier that the add-medication call directly before it returned.
C24_MedicationsInInputOrder ==
    /\ [](\A p \in Procs : op[p] = "create_soap_notes" => MedicationsInOrder(p))
    /\ [][\A p \in Procs : AddsAfterCleanScreen(p)]_vars

\* two different medications were searched, screened, added and associated
C24_Witness ==
    \E p \in Procs :
        /\ op[p] = "create_soap_notes"
        /\ outcome[p].kind = "JSONResponse"
        /\ Len(MedicationCalls(p)) = 8
        /\ req[p].medication[1] # req[p].medication[2]
        /\ MedicationCalls(p)[3].arg.drugName # MedicationCalls(p)[7].arg.drugName

---------------------------------------------------------------------------
(* C25: the provider of process_medications *)

\* the provider identifiers that the add-medication calls of p carry
AddedBy(p) ==
    {calls[p][i].arg.providerGuid : i \in CallsTo(p, "add_medication", "POST")}

\* how the provider of invocation p is found: "verbatim", "name" or "default"
ProviderKind(p) ==
    IF ~Truthy(req[p].providerNameOrGuid) THEN "default"
    ELSE IF is_guid(req[p].providerNameOrGuid) THEN "verbatim"
    ELSE "name"

\* C25: process_medications resolves the provider once, before the first drug
\* search, with at most one provider-list call however many medications there
\* are: a value of the identifier shape is used verbatim with no list call,
\* another value is resolved by exact provider name with one list call, and
\* with no provider the fixed default is used with no list call.  Every
\* add-medication payload of the invocation carries that one identifier.
C25_ProviderResolvedOnce ==
    /\ [](\A p \in Procs : op[p] = "create_soap_notes" =>
            LET listed == CallsTo(p, "provider", "GET")
                searched == CallsTo(p, "search_drug", "GET")
            IN  /\ Cardinality(listed) <= 1
                /\ \A i \in listed : \A j \in searched : i < j
                /\ Cardinality(AddedBy(p)) <= 1
                /\ ProviderKind(p) = "verbatim" =>
                      /\ listed = {}
                      /\ AddedBy(p) \subseteq {req[p].providerNameOrGuid}
                /\ ProviderKind(p) = "default" =>
                      /\ listed = {}
                      /\ AddedBy(p) \subseteq {DEFAULT_PROVIDER_GUID}
                /\ ProviderKind(p) = "name" =>
                      /\ searched # {} => Cardinality(listed) = 1
                      /\ AddedBy(p) \subseteq {loc[p].provider_guid}
                      /\ JustAnswered(p, "provider") =>
                            \E j \in 1..Len(loc[p].response.val.v) :
                                /\ IsFirstWith(loc[p].response.val.v, j,
                                               "providerName", req[p].providerNameOrGuid)
                                /\ loc[p].provider_guid
                                      = loc[p].response.val.v[j].providerGuid)
    /\ [][\A p \in Procs :
            (op[p] = "create_soap_notes" /\ loc'[p].provider_guid # loc[p].provider_guid)
            => \/ NewCall(p, "provider")
               \/ Len(calls[p]) = 0
               \/ \A i \in 1..Len(calls[p]) :
                     \A k \in 1..4 : calls[p][i].ep # MedicationCycle[k]]_vars

\* two medications were added for a provider given by name: one list call, and
\* both payloads carry the identifier of the first provider of that name
C25_Witness ==
    \E p \in Procs :
        /\ op[p] = "create_soap_notes"
        /\ outcome[p].kind = "JSONResponse"
        /\ ProviderKind(p) = "name"
        /\ Cardinality(CallsTo(p, "add_medication", "POST")) = 2
        /\ Cardinality(CallsTo(p, "provider", "GET")) = 1
        /\ AddedBy(p) = {<<"V", "1">>}

---------------------------------------------------------------------------
(* C26: the conflict check and the appointment it guards *)

\* C26: the conflict check of an appointment is issued for the provider and
\* the facility of the appointment payload, and its time window covers the
\* whole interval from the payload's start to the payload's end, to the second.
C26_ConflictWindowCoversAppointment ==
    \A p \in Procs :
        \A i \in CallsTo(p, "conflicts", "GET") :
            LET window == calls[p][i].arg
                appointment == loc[p].payload
            IN  /\ window.providerGuid = appointment.lastModifiedByProviderGuid
                /\ window.providerGuid
                      = appointment.schedulerEventParticipants[3].participantGuid
                /\ window.facilityGuid
                      = appointment.schedulerEventParticipants[2].participantGuid
                /\ MinuteOfDay(window.startDateTimeFlt) * 60
                      <= IsoSeconds(appointment.startAtDateTimeUtc)
                /\ IsoSeconds(appointment.endAtDateTimeUtc)
                      <= MinuteOfDay(window.endDateTimeFlt) * 60

---------------------------------------------------------------------------
(* C27: the markup of the note sections *)

\* C27: every note section that create_soap_notes transmits (chief complaint,
\* subjective, objective, assessment, plan) is transmitted as its text inside
\* the rich-text wrapper <div class="pf-rich-text"><p>...</p></div>, never as
\* the bare text.
C27_EverySectionIsWrapped ==
    \A p \in Procs :
        \A i \in CallsTo(p, "update_transcript", "PATCH") :
            \E k \in 1..5 :
                /\ calls[p][i].arg.field = SectionField(k)
                /\ calls[p][i].arg.value
                      = RICH_OPEN \o SectionText(req[p], k) \o RICH_CLOSE

---------------------------------------------------------------------------
(* C28: create_health_concern *)

\* the indices of the calls of invocation p that write a health concern
ConcernWrites(p) ==
    CallsTo(p, "health_concern", "PUT") \cup CallsTo(p, "health_concern", "POST")

\* the write of a health concern is issued in the step after the list was
\* answered: a PUT for the first concern listed, with its identifier, when the
\* list has a concern; a POST without an identifier when the list is empty or
\* the answer has none
WritesAsListed(p) ==
    NewCall(p, "health_concern") =>
        /\ calls[p][Len(calls[p])].ep = "health_concerns"
        /\ loc[p].response.ok
        /\ LET concerns == Get(loc[p].response.val.v, "patientHealthConcerns", <<>>)
               write == calls'[p][Len(calls'[p])]
           IN  IF concerns # <<>>
               THEN /\ write.method = "PUT"
                    /\ write.arg.patientHealthConcernGuid
                          = concerns[1].patientHealthConcernGuid
               ELSE /\ write.method = "POST"
                    /\ write.arg.patientHealthConcernGuid = None

\* C28: create_health_concern issues one GET of the patient's health concerns
\* and then exactly one write, a PUT or a POST and never both: a PUT addressed
\* to the first listed concern, with its identifier in the payload, when the
\* list is not empty, a POST that creates a concern when the list is empty or
\* absent.  create_soap_notes calls it only for a non-blank healthConcernNote.
C28_OneWriteForTheConcern ==
    /\ [](\A p \in Procs :
            /\ Cardinality(CallsTo(p, "health_concerns", "GET")) <= 1
            /\ Cardinality(ConcernWrites(p)) <= 1
            /\ \A i \in ConcernWrites(p) :
                  /\ i > 1
                  /\ calls[p][i - 1].ep = "health_concerns"
                  /\ calls[p][i - 1].method = "GET"
                  /\ calls[p][i].arg.healthConcernNote = req[p].healthConcernNote
            /\ CallsTo(p, "health_concerns", "GET") # {} =>
                  Truthy(req[p].healthConcernNote)
            /\ (JustAnswered(p, "health_concerns") /\ loc[p].response.val.t = "dict") =>
                  (pc[p] = "sn_hc_write" /\ ENABLED SN_HealthConcernWrite(p)))
    /\ [][\A p \in Procs : WritesAsListed(p)]_vars

\* the patient had two concerns on file: the first one was updated with a PUT
C28_Witness ==
    \E p \in Procs :
        /\ outcome[p].kind = "JSONResponse"
        /\ CallsTo(p, "health_concern", "POST") = {}
        /\ \E i \in CallsTo(p, "health_concern", "PUT") :
              calls[p][i].arg.patientHealthConcernGuid = <<"H", "1">>

---------------------------------------------------------------------------
(* C29: the patient of get_encounters and create_soap_notes, by name *)

\* C29: in get_encounters and create_soap_notes, for every value of
\* patientNameOrParticipantGuid (a str of the schema) that is not of the
\* identifier shape, the invocation issues exactly one patient search, with
\* firstName the first and lastName the last whitespace-separated token of the
\* value, and works with the identifier of the first patient returned.
C29_NameIsSplitAndSearched ==
    \A p \in Procs :
        (/\ op[p] \in {"get_encounters", "create_soap_notes"}
         /\ ~is_guid(req[p].patientNameOrParticipantGuid)
         /\ pc[p] \notin {"ge_patient", "sn_patient"})
        => /\ Cardinality(CallsTo(p, "search_patient", "POST")) = 1
           /\ \A i \in CallsTo(p, "search_patient", "POST") :
                 LET tokens == Split(req[p].patientNameOrParticipantGuid)
                 IN  /\ i = 1
                     /\ calls[p][i].arg.firstName = tokens[1]
                     /\ calls[p][i].arg.lastName = tokens[Len(tokens)]
           /\ JustAnswered(p, "search_patient") =>
                 loc[p].participant_guid
                    = loc[p].response.val.v["patients"][1].patientPracticeGuid

---------------------------------------------------------------------------
(* C30: the identifiers of the create-appointment payload *)

\* the facility and the practice of an appointment payload
FacilityPair(appointment) ==
    <<appointment.schedulerEventParticipants[2].participantGuid,
      appointment.practiceGuid>>

\* the payload built for invocation p has the default facility with the
\* default practice when no facility is named, and right after the facility
\* list was read it has the facility and the practice of one record, the
\* first of the name
ConsistentPair(p) ==
    /\ (pc[p] \in {"ca_conflicts", "ca_create"} /\ ~Truthy(req[p].facilityName)) =>
          FacilityPair(loc[p].payload) = <<DEFAULT_FACILITY_GUID, DEFAULT_PRACTICE_GUID>>
    /\ (op[p] = "create_appointment" /\ JustAnswered(p, "facility")) =>
          \E j \in 1..Len(loc[p].response.val.v) :
              /\ IsFirstWith(loc[p].response.val.v, j, "name", req[p].facilityName)
              /\ FacilityPair(loc[p].payload)
                    = <<loc[p].response.val.v[j].facilityGuid,
                        loc[p].response.val.v[j].practiceGuid>>

\* C30: in every create-appointment payload the facility and the practice are
\* a pair, both the fixed defaults when no facility is named and else both of
\* the one matched facility record; the facility participant is the facility
\* of the conflict check, lastModifiedByProviderGuid is the provider
\* participant and the provider of the conflict check; and the participants
\* are three, with the role codes 3 (patient), 2 (facility), 1 (provider).
C30_PayloadIdentifiersAgree ==
    \A p \in Procs :
        /\ ConsistentPair(p)
        /\ \A i \in CallsTo(p, "create_appointment", "POST") :
              LET appointment == calls[p][i].arg
                  participants == appointment.schedulerEventParticipants
              IN  /\ appointment = loc[p].payload
                  /\ Len(participants) = 3
                  /\ participants[1].schedulerEventParticipantTypeId = 3
                  /\ participants[2].schedulerEventParticipantTypeId = 2
                  /\ participants[3].schedulerEventParticipantTypeId = 1
                  /\ participants[1].participantGuid = loc[p].patient_id
                  /\ i > 1
                  /\ calls[p][i - 1].ep = "conflicts"
                  /\ participants[2].participantGuid = calls[p][i - 1].arg.facilityGuid
                  /\ participants[3].participantGuid = calls[p][i - 1].arg.providerGuid
                  /\ appointment.lastModifiedByProviderGuid
                        = participants[3].participantGuid

\* an appointment was created in a named facility: the payload has the
\* facility and the practice of that facility's record
C30_Witness ==
    \E p \in Procs :
        /\ op[p] = "create_appointment"
        /\ outcome[p].kind = "JSONResponse"
        /\ req[p].facilityName = FACILITY_NAME
        /\ \E i \in CallsTo(p, "create_appointment", "POST") :
              FacilityPair(calls[p][i].arg) = <<<<"F", "1">>, <<"R", "1">>>>

---------------------------------------------------------------------------
(* create_soap_notes, the update path: C31 *)

\* invocation p updates a transcript that its request supplies
IsUpdate(p) == op[p] = "create_soap_notes" /\ Truthy(req[p].transcriptGuid)

\* the request of p names its patient, or its facility: the value is there
\* and is not of the identifier shape, so that it is looked up
NamesPatient(p) == ~is_guid(req[p].patientNameOrParticipantGuid)
NamesFacility(p) ==
    Truthy(req[p].facilityNameOrGuid) /\ ~is_guid(req[p].facilityNameOrGuid)

\* the calls of p that apply a section, the provider list of the
\* medications included
AppliedCalls(p) == {i \in 1..Len(calls[p]) : SectionOfCall(calls[p][i]) > 0}

\* the last call of p was the facility list, and the list it got has no
\* facility of the name the request gives
FacilityUnmatched(p) ==
    /\ Len(calls[p]) > 0
    /\ calls[p][Len(calls[p])].ep = "facility"
    /\ loc[p].response.ok
    /\ loc[p].response.val.t = "list"
    /\ \A j \in 1..Len(loc[p].response.val.v) :
          loc[p].response.val.v[j].name # req[p].facilityNameOrGuid

\* C31: in an update (transcriptGuid supplied) every section call comes
\* after the patient search, when the patient is named, and after the
\* facility list, when a facility is named; the two lookups are issued at
\* most once, the patient first, and a run that returns has issued them; no
\* call of the update carries the facility; a facility list without the
\* name ends the invocation with 404 "Facility not found." and no section
\* call.
C31_UpdateResolvesBeforeSections ==
    \A p \in Procs :
        IsUpdate(p) =>
            LET searches == CallsTo(p, "search_patient", "POST")
                lists == CallsTo(p, "facility", "GET")
            IN  /\ ~NamesPatient(p) => searches = {}
                /\ Cardinality(searches) <= 1
                /\ Cardinality(lists) <= 1
                /\ ~NamesFacility(p) => lists = {}
                /\ \A i \in searches : \A j \in lists : i < j
                /\ (AppliedCalls(p) # {} \/ outcome[p].kind = "JSONResponse") =>
                      /\ NamesPatient(p) => searches # {}
                      /\ NamesFacility(p) => lists # {}
                /\ \A i \in AppliedCalls(p) :
                      \A j \in searches \cup lists : j < i
                /\ \A i \in 1..Len(calls[p]) :
                      /\ calls[p][i].ep # "create_transcripts"
                      /\ calls[p][i].arg # <<>> => "facilityGuid" \notin DOMAIN calls[p][i].arg
                /\ FacilityUnmatched(p) =>
                      /\ pc[p] = "done"
                      /\ outcome[p] = HTTPException(404, "Facility not found.", {})
                      /\ AppliedCalls(p) = {}

\* C31's case: an update that names its patient and its facility and sets the
\* chief complaint searched the patient, listed the facilities, found none of
\* the name, and ended with 404 before it patched anything
C31_Witness ==
    \E p \in Procs :
        /\ IsUpdate(p)
        /\ NamesPatient(p)
        /\ NamesFacility(p)
        /\ Truthy(req[p].chiefComplaint)
        /\ CallsTo(p, "search_patient", "POST") # {}
        /\ FacilityUnmatched(p)
        /\ FailedWith(p, 404)
        /\ AppliedCalls(p) = {}

---------------------------------------------------------------------------
(* create_patient: C32 *)

\* the calls of invocation p are the postal-code lookup of the request's
\* postal code and then the create-patient call, or a prefix of the two
LookupThenCreate(p) ==
    /\ Len(calls[p]) <= 2
    /\ Len(calls[p]) >= 1 =>
          /\ calls[p][1].ep = "postalCode"
          /\ calls[p][1].method = "GET"
          /\ calls[p][1].arg.postalCode = req[p].postalCode
    /\ Len(calls[p]) = 2 =>
          /\ calls[p][2].ep = "create_patient"
          /\ calls[p][2].method = "PUT"
          /\ calls[p][2].arg = loc[p].payload
    /\ outcome[p].kind = "JSONResponse" => Len(calls[p]) = 2

\* the lookup of invocation p has been answered and nothing was called since
LookupAnswered(p) == Len(calls[p]) = 1

\* after the lookup: when it raised, or gave no object, the invocation has
\* ended with that error; else the create-patient call is next, and the city
\* and the state of its payload are those of the object the lookup gave
PayloadFromOwnLookup(p) ==
    LookupAnswered(p) =>
        IF ~loc[p].response.ok
          THEN pc[p] = "done" /\ outcome[p] = loc[p].response.exc
        ELSE IF loc[p].response.val.t # "dict"
          THEN Failed(p)
        ELSE /\ pc[p] = "cp_create"
             /\ loc[p].payload.city = Get(loc[p].response.val.v, "city", None)
             /\ loc[p].payload.state
                    = Get(loc[p].response.val.v, "stateProvince", None)
             /\ loc[p].payload.postalCode = req[p].postalCode

\* C32: create_patient calls the postal-code lookup and then create-patient,
\* and nothing else: two calls when it returns.  A lookup that fails ends the
\* invocation, which calls nothing afterwards.  The payload is built from the
\* answer to the invocation's own lookup, city and stateProvince, is not
\* changed before it is sent, and no step of another invocation changes it.
C32_LookupThenCreate ==
    /\ [](\A p \in RaceProcs :
            op[p] = "create_patient" => LookupThenCreate(p) /\ PayloadFromOwnLookup(p))
    /\ [][\A p \in RaceProcs :
            /\ pc[p] = "done" => calls'[p] = calls[p]
            /\ pc[p] = "cp_create" => loc'[p].payload = loc[p].payload
            /\ (LookupAnswered(p) /\ calls'[p] # calls[p])
                  => calls'[p][2].arg = loc[p].payload]_vars

\* C32's case: two invocations for the same postal code ran interleaved, the
\* lookup of the first gave one city and the lookup of the second another,
\* and each created its patient in the city of its own lookup
C32_Witness ==
    /\ \A p \in RaceProcs :
          /\ op[p] = "create_patient"
          /\ outcome[p].kind = "JSONResponse"
          /\ Len(calls[p]) = 2
    /\ req[1] = req[2]
    /\ calls[1][2].arg.city = <<"L", "A">>
    /\ calls[2][2].arg.city = <<"S", "F">>

\* the lookup of an invocation failed, and the invocation ended with its one
\* call
C32_WitnessFailure ==
    \E p \in RaceProcs :
        /\ op[p] = "create_patient"
        /\ LookupAnswered(p)
        /\ ~loc[p].response.ok
        /\ Failed(p)

====
